---- MODULE Spec2Model ----
(***************************************************************************)
(* Delivery-integration controller (src/unnamed/part_000): the webhook     *)
(* ingestor, the dispatch orchestrator (sendOrder, batchSendOrders) and    *)
(* batchAssignOrders, over the Order and DeliveryCompany collections.      *)
(*                                                                         *)
(* Representation.  A JavaScript string is either a TLA+ string (ids,      *)
(* codes, tracking numbers, notes: values the code only compares and       *)
(* copies) or, where the code edits the text (status values, the           *)
(* Authorization header), a sequence of tokens: a token is a run of        *)
(* letters in one spelling ("Picked", "UP"), the blank " " (one            *)
(* whitespace character) or "_".  undefined, null and '' are all falsy in  *)
(* the code's tests and are the empty string "" / the empty sequence <<>>; *)
(* an absent Date is 0 and a Date is its time, a positive number.          *)
(* Object ids handed to findById are well-formed ObjectIds (a malformed    *)
(* id makes mongoose throw a CastError, which is library behaviour outside *)
(* this repository).                                                       *)
(*                                                                         *)
(* A handler runs as one step where the requests are served one after the  *)
(* other (orders, last); sends holds the sendOrder requests that are in    *)
(* flight at the same time, each stopped at one of its awaits.  sessions   *)
(* is the PaymentSession collection of the Meshulam controller             *)
(* (src/unnamed/part_001).                                                 *)
(***************************************************************************)
EXTENDS Integers, Sequences, FiniteSets, TLC

VARIABLES orders, companies, envToken, now, nops, last, sends, sessions,
          paypalOrders,
          timer, intervals, drafts, ticks, messages,
          productViewQueue, productFlushTimer, bulkWrites, products, pageViews

\* the checkout-draft reminder scheduler
\* (src/services/checkoutDraftReminderScheduler.js): its module variable
\* timer, the intervals the runtime holds, the CheckoutDraft collection, the
\* tick invocations that are at an await, and the WhatsApp messages Twilio
\* accepted
schedVars == <<timer, intervals, drafts, ticks, messages>>

\* the visitor tracker (src/services/visitorTracker.js): its module variables
\* productViewQueue and productFlushTimer, the bulk writes that are awaited,
\* the Product collection's visitorViewCount, and the product page views
\* trackEvent recorded
trackerVars ==
  <<productViewQueue, productFlushTimer, bulkWrites, products, pageViews>>

\* paypalOrders is the orders the PayPal gateway holds
\* (src/controllers/paypalController.js)
vars ==
  <<orders, companies, envToken, now, nops, last, sends, sessions,
    paypalOrders, schedVars, trackerVars>>

(***************************************************************************)
(* Bounds of the model.                                                    *)
(***************************************************************************)
\* operations (requests) per behaviour
MaxOps == 2
\* clock values 1..MaxTime
MaxTime == 2

(***************************************************************************)
(* Text helpers: String.prototype.trim / toLowerCase / replace(/\s+/g,'_') *)
(***************************************************************************)
Blank == " "

\* toLowerCase on one token (a run of letters in one spelling)
Lower(t) ==
  CASE t = "Delivered" -> "delivered"
    [] t = "DELIVERED" -> "delivered"
    [] t = "Picked" -> "picked"
    [] t = "UP" -> "up"
    [] t = "Done" -> "done"
    [] t = "Bearer" -> "bearer"
    [] t = "BEARER" -> "bearer"
    [] t = "HTTPS" -> "https"
    [] OTHER -> t

ToLowerCase(s) == [i \in 1..Len(s) |-> Lower(s[i])]

RECURSIVE TrimStart(_)
TrimStart(s) == IF s # <<>> /\ Head(s) = Blank THEN TrimStart(Tail(s)) ELSE s

RECURSIVE TrimEnd(_)
TrimEnd(s) ==
  IF s # <<>> /\ s[Len(s)] = Blank THEN TrimEnd(SubSeq(s, 1, Len(s) - 1)) ELSE s

Trim(s) == TrimEnd(TrimStart(s))

\* replace(/\s+/g, '_'): every maximal run of blanks becomes one "_"
RECURSIVE ReplaceWhitespace(_)
ReplaceWhitespace(s) ==
  IF s = <<>> THEN <<>>
  ELSE IF Head(s) = Blank
       THEN <<"_">> \o ReplaceWhitespace(TrimStart(s))
       ELSE <<Head(s)>> \o ReplaceWhitespace(Tail(s))

\* String(value) for the values the requests carry: a number literal is
\* written "#<digits>" in the model and prints as its digits
NumberLiterals == {"#7"}

String(v) == IF v = "#7" THEN "7" ELSE v

TypeofString(v) == v \notin NumberLiterals

(***************************************************************************)
(* part_000 lines 9-30                                                     *)
(***************************************************************************)
DELIVERY_ALLOWED_STATUSES ==
  { <<"assigned">>,
    <<"picked", "_", "up">>,
    <<"in", "_", "transit">>,
    <<"out", "_", "for", "_", "delivery">>,
    <<"delivered">>,
    <<"delivery", "_", "failed">>,
    <<"returned">>,
    <<"cancelled">> }

normalizeStatusValue(value) == ReplaceWhitespace(ToLowerCase(Trim(value)))

\* a raw date of the payload: 0 absent, -1 a text that is no date, n > 0 a date
parseOptionalDate(value) == IF value > 0 THEN value ELSE 0

(***************************************************************************)
(* The collections.                                                        *)
(***************************************************************************)
\* natural (insertion) order of each collection
OrderIds == <<"o1", "o2">>
CompanyIds == <<"c1", "c2", "c3">>

\* a well-formed id that matches no document
MissingOrderId == "o9"
MissingCompanyId == "c9"

isValidObjectId(v) ==
  v \in {"o1", "o2", "o9", "c1", "c2", "c3", "c9"}

Range(s) == {s[i] : i \in 1..Len(s)}

\* findOne without a sort: the first id, in the order ids, among matching
FirstOf(ids, matching) ==
  LET at == {i \in 1..Len(ids) : ids[i] \in matching}
  IN IF at = {} THEN "" ELSE ids[CHOOSE i \in at : \A j \in at : i <= j]

\* Order.findById as a query that falls back to the first document
OrderFindByIdOrFirst(id) == IF id \in Range(OrderIds) THEN id ELSE OrderIds[1]

\* Order.findById / DeliveryCompany.findById: the id when a document has it
OrderFindById(id) == IF id \in Range(OrderIds) THEN id ELSE ""

CompanyFindById(id) ==
  IF id \in Range(CompanyIds) /\ companies[id].exists THEN id ELSE ""

\* DeliveryCompany.findOne({ code })
CompanyFindByCode(code) ==
  FirstOf(CompanyIds,
          {c \in Range(CompanyIds) : companies[c].exists /\ companies[c].code = code})

\* DeliveryCompany.findOne({ isActive: true, isDefault: true })
CompanyFindActiveDefault ==
  FirstOf(CompanyIds,
          {c \in Range(CompanyIds) :
             companies[c].exists /\ companies[c].isActive /\ companies[c].isDefault})

\* DeliveryCompany.findOne({ isActive: true }).sort('name'); name is the
\* company's rank in name order
CompanyFindFirstActiveByName ==
  LET act == {c \in Range(CompanyIds) : companies[c].exists /\ companies[c].isActive}
  IN IF act = {} THEN ""
     ELSE CHOOSE c \in act : \A d \in act : companies[c].name <= companies[d].name

\* Order.findOne({ orderNumber })
OrderFindByNumber(ords, n) ==
  FirstOf(OrderIds, {o \in Range(OrderIds) : ords[o].orderNumber = n})

\* the query on the canonical field alone
OrderFindByCanonicalTracking(ords, t) ==
  FirstOf(OrderIds, {o \in Range(OrderIds) : ords[o].deliveryTrackingNumber = t})

\* Order.findOne({ $or: [{ deliveryTrackingNumber }, { trackingNumber }] })
OrderFindByTracking(ords, t) ==
  FirstOf(OrderIds,
          {o \in Range(OrderIds) :
             ords[o].deliveryTrackingNumber = t \/ ords[o].trackingNumber = t})

(***************************************************************************)
(* services/deliveryIntegrationService.js is not part of src/; its four    *)
(* functions follow their contracts in spec.md sections 4.1 to 4.4.        *)
(***************************************************************************)
\* 4.3 Status Mapper: normalize, first statusMapping match, else the
\* normalized value when it is an internal status, else assigned
mapStatus(company, providerStatus) ==
  LET n == normalizeStatusValue(providerStatus)
      table == IF company = "" THEN <<>> ELSE companies[company].statusMapping
      hits == {i \in 1..Len(table) : normalizeStatusValue(table[i].companyStatus) = n}
  IN IF hits # {}
     THEN table[CHOOSE i \in hits : \A j \in hits : i <= j].internalStatus
     ELSE IF n \in DELIVERY_ALLOWED_STATUSES THEN n ELSE <<"assigned">>

\* 4.1 Configuration Validator: ok iff the base URL is an http(s) URL and the
\* auth method has its credential
validateCompanyConfiguration(company) ==
  LET cfg == companies[company].apiConfiguration
      issues == (IF cfg.url \notin {"http", "https"} THEN {"url"} ELSE {})
                \cup (IF cfg.authMethod = "bearer" /\ cfg.bearer = <<>>
                      THEN {"bearer"} ELSE {})
  IN [ok |-> issues = {}, issues |-> issues]

\* 4.2 Field-Mapping Validator: the required mappings whose order field is empty
validateRequiredMappings(order, company) ==
  LET missing == {f \in companies[company].requiredFields : order[f] = ""}
  IN [ok |-> missing = {}, missing |-> missing]

(***************************************************************************)
(* State after start-up.                                                   *)
(***************************************************************************)
\* sendToCompany was not called
NoProviderCall ==
  [ok |-> FALSE, trackingNumber |-> "", providerStatus |-> <<>>,
   providerResponse |-> "", code |-> "", message |-> ""]

NoResponse ==
  [op |-> "none", req |-> <<>>, code |-> 0, msg |-> "", company |-> "",
   target |-> "", repeat |-> FALSE, calls |-> <<>>, lookups |-> <<>>,
   results |-> <<>>, total |-> 0, txn |-> "none", sessionEnds |-> 0,
   prov |-> NoProviderCall, effects |-> <<>>, sent |-> <<>>]

FreshOrder(number, phone) ==
  [orderNumber |-> number, customerPhone |-> phone, paymentStatus |-> "pending",
   status |-> "pending", deliveryCompany |-> "", deliveryStatus |-> <<>>,
   deliveryStatusUpdated |-> 0, deliveryTrackingNumber |-> "",
   trackingNumber |-> "", deliveryNotes |-> "", deliveryEstimatedDate |-> 0,
   deliveryActualDate |-> 0, deliveryAssignedAt |-> 0, deliveryFee |-> 0,
   deliveryResponse |-> "", paymentMethod |-> "", paymentReference |-> "",
   paymentDetails |-> ""]

\* o1 is a new order; o2 is an order of before the integration: it has no
\* phone and carries only the legacy trackingNumber
InitOrders ==
  [o \in Range(OrderIds) |->
     IF o = "o1" THEN FreshOrder("ORD1", "050")
     ELSE [FreshOrder("ORD2", "") EXCEPT !.trackingNumber = "T2"]]

\* c1 maps the provider's "Done"; c3 has no base URL
InitCompany(c, active, default) ==
  [exists |-> TRUE,
   code |-> CASE c = "c1" -> "K1" [] c = "c2" -> "K2" [] OTHER -> "K3",
   name |-> CASE c = "c1" -> 2 [] c = "c2" -> 1 [] OTHER -> 3,
   isActive |-> active,
   isDefault |-> default,
   statusMapping |->
     IF c = "c1"
     THEN <<[companyStatus |-> <<"Done">>, internalStatus |-> <<"delivered">>]>>
     ELSE <<>>,
   apiConfiguration |->
     [url |-> CASE c = "c1" -> "https" [] c = "c2" -> "http" [] OTHER -> "",
      authMethod |-> IF c = "c1" THEN "bearer" ELSE "none",
      bearer |-> IF c = "c1" THEN <<"k">> ELSE <<>>,
      apiKey |-> <<>>, apiKeyHeader |-> <<>>, headers |-> <<>>],
   requiredFields |-> IF c = "c1" THEN {"customerPhone"} ELSE {}]

TokenA == <<"tokA">>
TokenB == <<"tokB">>

\* the two requests that can be in flight together
Procs == {"A", "B"}

\* no request in flight
IdleSend ==
  [pc |-> "idle", req |-> <<>>, company |-> "", order |-> "",
   loaded |-> <<>>, doc |-> <<>>, prov |-> NoProviderCall, code |-> 0,
   txn |-> "none", rank |-> 0]

\* the ids PaymentSession documents get, in the order they are created
SessionIds == <<"s1", "s2">>

\* a well-formed id that matches no session
MissingSessionId == "s9"

\* no document with this id
NoSession ==
  [exists |-> FALSE, status |-> "", details |-> "", callback |-> "",
   approve |-> "", order |-> <<>>]

\* the ids the PayPal gateway gives its orders, in the order they are created
PayPalIds == <<"P1", "P2">>

\* the gateway holds no order with this id
NoPayPalOrder == [exists |-> FALSE, reference_id |-> "", captured |-> FALSE]

\* the product ids of page views
ProductIds == {"p1", "p2"}

\* the collaborators before their first use: no PayPal order, the scheduler
\* not started and no draft, nothing tracked
InitCollaborators ==
  /\ paypalOrders = [p \in Range(PayPalIds) |-> NoPayPalOrder]
  /\ timer = 0
  /\ intervals = {}
  /\ drafts = <<>>
  /\ ticks = <<>>
  /\ messages = <<>>
  /\ productViewQueue = <<>>
  /\ productFlushTimer = FALSE
  /\ bulkWrites = <<>>
  /\ products = [p \in ProductIds |-> 0]
  /\ pageViews = 0

InitWith(env, actives, defaults) ==
  /\ sends = [p \in Procs |-> IdleSend]
  /\ sessions = [s \in Range(SessionIds) |-> NoSession]
  /\ orders = InitOrders
  /\ companies = [c \in Range(CompanyIds) |->
                    InitCompany(c, c \in actives, c \in defaults)]
  /\ envToken = env
  /\ now = 1
  /\ nops = 0
  /\ last = NoResponse
  /\ InitCollaborators

Tick ==
  /\ now < MaxTime
  /\ now' = now + 1
  /\ UNCHANGED <<orders, companies, envToken, nops, last, sends, sessions,
               paypalOrders, schedVars, trackerVars>>

(***************************************************************************)
(* deliveryStatusWebhook, part_000 lines 207-314                           *)
(***************************************************************************)
\* the Authorization header as sent: scheme, blanks, credential, blanks
HeaderText(h) ==
  (IF h.scheme = "" THEN <<>> ELSE <<h.scheme>>)
    \o [i \in 1..h.gap |-> Blank] \o h.credential \o [i \in 1..h.trail |-> Blank]

\* authHeader.replace(/^Bearer\s+/i, '').trim()
ExtractToken(authHeader) ==
  Trim(IF Len(authHeader) >= 2 /\ Lower(authHeader[1]) = "bearer"
          /\ authHeader[2] = Blank
       THEN TrimStart(Tail(authHeader))
       ELSE authHeader)

\* line 218, as the code would read with the comparison left out
TokenRejectedOnlyWhenEmpty(token) == token = <<>>

\* line 218: !token || token !== envToken
TokenRejected(token) == token = <<>> \/ token # envToken

WebhookOrderId(p) ==
  IF p.orderId # "" THEN p.orderId
  ELSE IF isValidObjectId(p.order_id) THEN p.order_id ELSE ""

WebhookOrderNumber(p) ==
  IF p.orderNumber # "" THEN p.orderNumber
  ELSE IF WebhookOrderId(p) = "" /\ p.order_id # "" THEN p.order_id ELSE ""

\* lines 244-258: by id, else by order number, else by tracking number
WebhookFindOrder(p, ords) ==
  LET byId == IF WebhookOrderId(p) # "" THEN OrderFindById(WebhookOrderId(p)) ELSE ""
      byNumber == IF byId = "" /\ WebhookOrderNumber(p) # ""
                  THEN OrderFindByNumber(ords, String(WebhookOrderNumber(p)))
                  ELSE byId
  IN IF byNumber = "" /\ p.trackingNumber # ""
     THEN OrderFindByTracking(ords, String(p.trackingNumber))
     ELSE byNumber

\* lines 263-270
WebhookFindCompany(p, order) ==
  IF p.companyId # "" THEN CompanyFindById(p.companyId)
  ELSE IF p.companyCode # "" THEN CompanyFindByCode(String(p.companyCode))
  ELSE IF order.deliveryCompany # "" THEN CompanyFindById(order.deliveryCompany)
  ELSE ""

\* lines 272-278
WebhookMappedStatus(p, company) ==
  LET given == IF p.providerStatus # <<>> THEN p.providerStatus ELSE <<"assigned">>
      normalized == normalizeStatusValue(given)
  IN IF company # "" THEN mapStatus(company, given)
     ELSE IF normalized \in DELIVERY_ALLOWED_STATUSES THEN normalized
     ELSE <<"assigned">>

\* lines 298-302, as the code would read without the !order.deliveryActualDate
\* test
ActualDateAlwaysStamped(order, actualDate, mappedStatus, t) ==
  IF actualDate # 0 THEN actualDate
  ELSE IF mappedStatus = <<"delivered">> THEN t
  ELSE order.deliveryActualDate

\* lines 298-302
WebhookActualDate(order, actualDate, mappedStatus, t) ==
  IF actualDate # 0 THEN actualDate
  ELSE IF mappedStatus = <<"delivered">> /\ order.deliveryActualDate = 0 THEN t
  ELSE order.deliveryActualDate

\* lines 280-302: the fields the webhook writes on the order document
WebhookUpdate(order, p, company, t) ==
  LET mappedStatus == WebhookMappedStatus(p, company)
      estimatedDate == parseOptionalDate(p.estimatedDate)
      actualDate == parseOptionalDate(p.actualDate)
      occurredAt == parseOptionalDate(p.occurredAt)
  IN [order EXCEPT
        !.deliveryStatus = mappedStatus,
        !.deliveryStatusUpdated = IF occurredAt # 0 THEN occurredAt ELSE t,
        !.deliveryTrackingNumber =
           IF p.trackingNumber # "" THEN String(p.trackingNumber) ELSE @,
        !.trackingNumber =
           IF p.trackingNumber # "" THEN String(p.trackingNumber) ELSE @,
        !.deliveryCompany = IF company # "" /\ @ = "" THEN company ELSE @,
        !.status = IF p.orderStatus # "" THEN String(p.orderStatus) ELSE @,
        !.deliveryNotes =
           IF p.notes # "" /\ TypeofString(p.notes) THEN p.notes ELSE @,
        !.deliveryEstimatedDate = IF estimatedDate # 0 THEN estimatedDate ELSE @,
        !.deliveryActualDate =
           WebhookActualDate(order, actualDate, mappedStatus, t)]

\* bookkeeping of the model, not of the program: this request is the one just
\* answered 200, sent again
Repeats(op, req) == last.op = op /\ last.code = 200 /\ last.req = req

\* the whole handler: the response and the order collection it leaves;
\* saveOk is whether order.save() resolves
WebhookOutcome(req, ords, t, saveOk) ==
  LET p == req.body
      token == ExtractToken(HeaderText(req.auth))
      order == WebhookFindOrder(p, ords)
      company == WebhookFindCompany(p, ords[order])
      reply(code, msg) ==
        [code |-> code, msg |-> msg, orders |-> ords, target |-> "", company |-> ""]
  IN IF envToken = <<>> THEN reply(500, "webhook_not_configured")
     ELSE IF TokenRejected(token) THEN reply(401, "invalid_token")
     ELSE IF WebhookOrderId(p) = "" /\ WebhookOrderNumber(p) = ""
             /\ p.trackingNumber = ""
     THEN reply(400, "orderId, orderNumber, or trackingNumber is required")
     ELSE IF order = "" THEN reply(404, "order_not_found")
     ELSE IF ~saveOk THEN reply(500, "save failed")
     ELSE [code |-> 200, msg |-> "ok",
           orders |-> [ords EXCEPT ![order] = WebhookUpdate(@, p, company, t)],
           target |-> order, company |-> company]

\* lines 304-305 with the event emitted before the save
WebhookEffectsEmitFirst(reached, saveOk, notifyOk) ==
  IF ~reached THEN <<>>
  ELSE <<IF notifyOk THEN "emit" ELSE "emit threw",
         IF saveOk THEN "save" ELSE "save threw">>

\* lines 304-305: what the handler does to the document and the event
\* service, in order; reached is whether the handler gets to line 304,
\* notifyOk whether realTimeEventService.emitOrderUpdate returns
WebhookEffects(reached, saveOk, notifyOk) ==
  IF ~reached THEN <<>>
  ELSE IF ~saveOk THEN <<"save threw">>
  ELSE <<"save", IF notifyOk THEN "emit" ELSE "emit threw">>

deliveryStatusWebhook(req, saveOk, notifyOk) ==
  /\ nops < MaxOps
  /\ LET out == WebhookOutcome(req, orders, now, saveOk)
     IN /\ orders' = out.orders
        /\ last' = [NoResponse EXCEPT !.op = "webhook", !.req = req,
                      !.code = out.code, !.msg = out.msg,
                      !.target = out.target, !.company = out.company,
                      !.repeat = Repeats("webhook", req),
                      !.effects =
                         WebhookEffects(out.msg \in {"ok", "save failed"},
                                        saveOk, notifyOk)]
  /\ nops' = nops + 1
  /\ UNCHANGED <<companies, envToken, now, sends, sessions,
               paypalOrders, schedVars, trackerVars>>

(***************************************************************************)
(* sendToCompany (4.4): what the provider call does is the environment's   *)
(* choice: it returns a tracking number, the raw response and the          *)
(* provider's status ('' when the response has none), or it throws an      *)
(* error that may carry a code.                                            *)
(***************************************************************************)
ProviderReturns(tracking, status) ==
  [ok |-> TRUE, trackingNumber |-> tracking, providerStatus |-> status,
   providerResponse |-> "resp", code |-> "", message |-> ""]

ProviderThrows(code) ==
  [ok |-> FALSE, trackingNumber |-> "", providerStatus |-> <<>>,
   providerResponse |-> "", code |-> code, message |-> "provider failed"]

(***************************************************************************)
(* sendOrder, part_000 lines 549-637                                       *)
(***************************************************************************)
\* lines 557-568
SendResolveCompany(companyId, companyCode) ==
  LET explicit == IF companyId # "" THEN CompanyFindById(companyId)
                  ELSE IF companyCode # "" THEN CompanyFindByCode(companyCode)
                  ELSE ""
  IN IF explicit # "" THEN explicit
     ELSE IF CompanyFindActiveDefault # "" THEN CompanyFindActiveDefault
     ELSE CompanyFindFirstActiveByName

\* lines 552 and 606: deliveryFee = 0 when the body has none, then
\* deliveryFee || 0; the body's fee is <<>> when omitted and <<n>> when given
FeeOrZero(deliveryFee) == IF deliveryFee = <<>> THEN 0 ELSE deliveryFee[1]

\* lines 600-607 with the order's general status written as well
SendUpdateSetsOrderStatus(order, company, prov, deliveryFee, t) ==
  [order EXCEPT
     !.deliveryCompany = company,
     !.deliveryStatus =
        mapStatus(company, IF prov.providerStatus # <<>> THEN prov.providerStatus
                           ELSE <<"assigned">>),
     !.deliveryTrackingNumber = prov.trackingNumber,
     !.trackingNumber = prov.trackingNumber,
     !.deliveryAssignedAt = t,
     !.deliveryFee = IF deliveryFee = <<>> THEN 0 ELSE deliveryFee[1],
     !.deliveryResponse = prov.providerResponse,
     !.status = "shipped"]

\* lines 600-607 without line 606
SendUpdateKeepsFee(order, company, prov, deliveryFee, t) ==
  [order EXCEPT
     !.deliveryCompany = company,
     !.deliveryStatus =
        mapStatus(company, IF prov.providerStatus # <<>> THEN prov.providerStatus
                           ELSE <<"assigned">>),
     !.deliveryTrackingNumber = prov.trackingNumber,
     !.trackingNumber = prov.trackingNumber,
     !.deliveryAssignedAt = t,
     !.deliveryResponse = prov.providerResponse]

\* lines 600-607
SendUpdate(order, company, prov, deliveryFee, t) ==
  [order EXCEPT
     !.deliveryCompany = company,
     !.deliveryStatus =
        mapStatus(company, IF prov.providerStatus # <<>> THEN prov.providerStatus
                           ELSE <<"assigned">>),
     !.deliveryTrackingNumber = prov.trackingNumber,
     !.trackingNumber = prov.trackingNumber,
     !.deliveryAssignedAt = t,
     !.deliveryFee = FeeOrZero(deliveryFee),
     !.deliveryResponse = prov.providerResponse]

\* lines 626-633 with every error answered 500
SendErrorStatusAlways500(code) == 500

\* lines 626-633: the status of the catch block's response
SendErrorStatus(code) ==
  IF code \in {"MAPPING_MISSING", "PARAMS_MISSING"} THEN 400 ELSE 500

\* lines 576-595 with the second validation left out
SendPreflightConfigOnly(order, company) ==
  IF ~validateCompanyConfiguration(company).ok
  THEN "Delivery company configuration is incomplete"
  ELSE ""

\* lines 576-595: the message of the validation that fails, '' when both pass
SendPreflight(order, company) ==
  IF ~validateCompanyConfiguration(company).ok
  THEN "Delivery company configuration is incomplete"
  ELSE IF ~validateRequiredMappings(order, company).ok
  THEN "Missing required mapped fields"
  ELSE ""

\* the whole handler; prov is the provider call's outcome and saveOk whether
\* order.save({ session }) and commitTransaction resolve (the error they
\* throw otherwise is the database driver's and carries none of the two
\* codes of line 626)
SendOutcome(req, ords, t, prov, saveOk) ==
  LET company == SendResolveCompany(req.companyId, req.companyCode)
      order == OrderFindById(req.orderId)
      preflight == SendPreflight(ords[order], company)
      reply(code, msg, txn, calls) ==
        [code |-> code, msg |-> msg, orders |-> ords, target |-> order,
         company |-> company, txn |-> txn, calls |-> calls]
      sent == <<[orderId |-> order, company |-> company]>>
  IN IF req.orderId = ""
     THEN [code |-> 400, msg |-> "orderId is required", orders |-> ords,
           target |-> "", company |-> "", txn |-> "none", calls |-> <<>>]
     ELSE IF order = "" THEN reply(404, "Order not found", "none", <<>>)
     ELSE IF company = ""
     THEN reply(404, "Delivery company not found", "none", <<>>)
     ELSE IF preflight # "" THEN reply(400, preflight, "open", <<>>)
     ELSE IF ~prov.ok
     THEN reply(SendErrorStatus(prov.code), prov.message, "aborted", sent)
     ELSE IF ~saveOk THEN reply(SendErrorStatus(""), "save failed", "aborted", sent)
     ELSE [code |-> 200, msg |-> "Order sent to delivery company",
           orders |-> [ords EXCEPT
                         ![order] = SendUpdate(@, company, prov,
                                               req.deliveryFee, t)],
           target |-> order, company |-> company, txn |-> "committed",
           calls |-> sent]

sendOrder(req, prov, saveOk) ==
  /\ nops < MaxOps
  /\ LET out == SendOutcome(req, orders, now, prov, saveOk)
     IN /\ orders' = out.orders
        /\ last' = [NoResponse EXCEPT !.op = "sendOrder", !.req = req,
                      !.code = out.code, !.msg = out.msg,
                      !.target = out.target, !.company = out.company,
                      !.repeat = Repeats("sendOrder", req),
                      !.calls = out.calls,
                      !.lookups = IF req.orderId = "" THEN <<>>
                                  ELSE <<req.orderId>>,
                      !.txn = out.txn, !.sessionEnds = 1,
                      !.prov = IF out.calls # <<>> THEN prov ELSE NoProviderCall]
  /\ nops' = nops + 1
  /\ UNCHANGED <<companies, envToken, now, sends, sessions,
               paypalOrders, schedVars, trackerVars>>

(***************************************************************************)
(* batchAssignOrders, part_000 lines 662-695                               *)
(***************************************************************************)
\* lines 674-683 without line 680, the legacy mirror
AssignUpdateNoMirror(order, req, company, t) ==
  [order EXCEPT
     !.deliveryCompany = company,
     !.deliveryAssignedAt = t,
     !.deliveryTrackingNumber =
        IF req.trackingNumber # "" THEN req.trackingNumber ELSE @,
     !.deliveryStatus = IF req.deliveryStatus # <<>> THEN req.deliveryStatus ELSE @,
     !.status = IF req.orderStatus # "" THEN req.orderStatus ELSE @]

\* lines 674-683: the $set document applied to one matching order
AssignUpdate(order, req, company, t) ==
  [order EXCEPT
     !.deliveryCompany = company,
     !.deliveryAssignedAt = t,
     !.deliveryTrackingNumber =
        IF req.trackingNumber # "" THEN req.trackingNumber ELSE @,
     !.trackingNumber = IF req.trackingNumber # "" THEN req.trackingNumber ELSE @,
     !.deliveryStatus = IF req.deliveryStatus # <<>> THEN req.deliveryStatus ELSE @,
     !.status = IF req.orderStatus # "" THEN req.orderStatus ELSE @]

\* updateOk is whether Order.updateMany resolves
AssignOutcome(req, ords, t, updateOk) ==
  LET company == CompanyFindById(req.companyId)
      reply(code, msg) ==
        [code |-> code, msg |-> msg, orders |-> ords, company |-> company]
  IN IF req.orderIds = <<>> THEN
       [code |-> 400, msg |-> "orderIds array is required", orders |-> ords,
        company |-> ""]
     ELSE IF req.companyId = "" THEN
       [code |-> 400, msg |-> "companyId is required", orders |-> ords,
        company |-> ""]
     ELSE IF company = "" THEN reply(404, "Delivery company not found")
     ELSE IF ~updateOk THEN reply(500, "Batch assignment failed")
     ELSE [code |-> 200, msg |-> "Orders assigned to delivery company",
           orders |-> [o \in Range(OrderIds) |->
                         IF o \in Range(req.orderIds)
                         THEN AssignUpdate(ords[o], req, company, t)
                         ELSE ords[o]],
           company |-> company]

batchAssignOrders(req, updateOk) ==
  /\ nops < MaxOps
  /\ LET out == AssignOutcome(req, orders, now, updateOk)
     IN /\ orders' = out.orders
        /\ last' = [NoResponse EXCEPT !.op = "batchAssignOrders", !.req = req,
                      !.code = out.code, !.msg = out.msg,
                      !.company = out.company,
                      !.repeat = Repeats("batchAssignOrders", req)]
  /\ nops' = nops + 1
  /\ UNCHANGED <<companies, envToken, now, sends, sessions,
               paypalOrders, schedVars, trackerVars>>

(***************************************************************************)
(* batchSendOrders, part_000 lines 698-761                                 *)
(***************************************************************************)
\* lines 703-712
BatchResolveCompany(companyId, companyCode) ==
  LET explicit == IF companyId # "" THEN CompanyFindById(companyId)
                  ELSE IF companyCode # "" THEN CompanyFindByCode(companyCode)
                  ELSE ""
  IN IF explicit # "" THEN explicit
     ELSE IF CompanyFindActiveDefault # "" THEN CompanyFindActiveDefault
     ELSE CompanyFindFirstActiveByName

BatchFailure(orderId, error, code) ==
  [orderId |-> orderId, success |-> FALSE, error |-> error, code |-> code,
   trackingNumber |-> "", status |-> <<>>]

\* lines 717-748: one iteration of the loop.  acc is the loop's state: the
\* order collection, the results pushed so far, and the lookups and provider
\* calls made; env is this iteration's provider outcome and save outcome
BatchIteration(acc, orderId, company, deliveryFee, t, env) ==
  LET order == OrderFindById(orderId)
      cfg == validateCompanyConfiguration(company)
      mappingCheck == validateRequiredMappings(acc.orders[order], company)
      looked == [acc EXCEPT !.lookups = Append(@, orderId)]
      called == [looked EXCEPT
                   !.calls = Append(@, [orderId |-> order, company |-> company])]
      fail(a, error, code) ==
        [a EXCEPT !.results = Append(@, BatchFailure(orderId, error, code))]
      updated == SendUpdate(acc.orders[order], company, env.prov, deliveryFee, t)
  IN IF order = "" THEN fail(looked, "Order not found", "")
     ELSE IF ~cfg.ok
     THEN fail(looked, "Delivery company configuration incomplete", "CONFIG_INVALID")
     ELSE IF ~mappingCheck.ok
     THEN fail(looked, "Missing required mapped fields", "MAPPING_MISSING")
     ELSE IF ~env.prov.ok THEN fail(called, env.prov.message, env.prov.code)
     ELSE IF ~env.saveOk THEN fail(called, "save failed", "")
     ELSE [called EXCEPT
             !.orders[order] = updated,
             !.results = Append(@, [orderId |-> orderId, success |-> TRUE,
                                    error |-> "", code |-> "",
                                    trackingNumber |-> env.prov.trackingNumber,
                                    status |-> updated.deliveryStatus])]

\* the loop with the break taken on every failure
RECURSIVE BatchLoopAlwaysBreaks(_, _, _, _, _, _)
BatchLoopAlwaysBreaks(acc, i, company, req, t, envs) ==
  IF i > Len(req.orderIds) THEN acc
  ELSE LET next == BatchIteration(acc, req.orderIds[i], company,
                                  req.deliveryFee, t, envs[i])
       IN IF ~next.results[Len(next.results)].success
          THEN next
          ELSE BatchLoopAlwaysBreaks(next, i + 1, company, req, t, envs)

\* the loop with the break never taken
RECURSIVE BatchLoopNeverBreaks(_, _, _, _, _, _)
BatchLoopNeverBreaks(acc, i, company, req, t, envs) ==
  IF i > Len(req.orderIds) THEN acc
  ELSE BatchLoopNeverBreaks(
         BatchIteration(acc, req.orderIds[i], company, req.deliveryFee, t, envs[i]),
         i + 1, company, req, t, envs)

\* lines 716-749: for (const orderId of orderIds), from position i on
RECURSIVE BatchLoop(_, _, _, _, _, _)
BatchLoop(acc, i, company, req, t, envs) ==
  IF i > Len(req.orderIds) THEN acc
  ELSE LET next == BatchIteration(acc, req.orderIds[i], company,
                                  req.deliveryFee, t, envs[i])
       IN IF ~next.results[Len(next.results)].success /\ req.stopOnError
          THEN next
          ELSE BatchLoop(next, i + 1, company, req, t, envs)

BatchOutcome(req, ords, t, envs) ==
  LET company == BatchResolveCompany(req.companyId, req.companyCode)
      start == [orders |-> ords, results |-> <<>>, lookups |-> <<>>, calls |-> <<>>]
      done == BatchLoop(start, 1, company, req, t, envs)
  IN IF req.orderIds = <<>>
     THEN start @@
          [code |-> 400, msg |-> "orderIds array is required", company |-> "",
           total |-> 0]
     ELSE IF company = ""
     THEN start @@ [code |-> 404, msg |-> "Delivery company not found",
                    company |-> "", total |-> 0]
     ELSE done @@ [code |-> 200, msg |-> "", company |-> company,
                   total |-> Len(req.orderIds)]

batchSendOrders(req, envs) ==
  /\ nops < MaxOps
  /\ LET out == BatchOutcome(req, orders, now, envs)
     IN /\ orders' = out.orders
        /\ last' = [NoResponse EXCEPT !.op = "batchSendOrders", !.req = req,
                      !.code = out.code, !.msg = out.msg,
                      !.company = out.company,
                      !.repeat = Repeats("batchSendOrders", req),
                      !.calls = out.calls, !.lookups = out.lookups,
                      !.results = out.results, !.total = out.total]
  /\ nops' = nops + 1
  /\ UNCHANGED <<companies, envToken, now, sends, sessions,
               paypalOrders, schedVars, trackerVars>>

(***************************************************************************)
(* Requests.                                                               *)
(***************************************************************************)
NoKey == [orderId |-> "", order_id |-> "", orderNumber |-> "", trackingNumber |-> ""]

\* how a webhook payload names its order: by id, by the order_id alias
\* holding an order number, by tracking number, by id with a numeric
\* tracking number to record
PayloadOrderKeys ==
  { [NoKey EXCEPT !.orderId = "o1"],
    [NoKey EXCEPT !.order_id = "ORD2"],
    [NoKey EXCEPT !.trackingNumber = "T2"],
    [NoKey EXCEPT !.orderId = "o1", !.trackingNumber = "#7"] }

PayloadStatuses == { <<>>, <<Blank, "Delivered">>, <<"Done">> }

NoCompany == [companyId |-> "", companyCode |-> ""]

PayloadCompanies == { NoCompany, [NoCompany EXCEPT !.companyCode = "K1"] }

NoDetails ==
  [orderStatus |-> "", notes |-> "", estimatedDate |-> 0, actualDate |-> 0,
   occurredAt |-> 0]

\* all given
FullDetails ==
  [orderStatus |-> "shipped", notes |-> "at the door", estimatedDate |-> 5,
   actualDate |-> 4, occurredAt |-> 3]

\* the optional details: none, all given
PayloadDetails == { NoDetails, FullDetails }

\* all given but unusable: notes that are a number, texts that are no dates
BadDetails ==
  [orderStatus |-> "", notes |-> "#7", estimatedDate |-> -1, actualDate |-> -1,
   occurredAt |-> -1]

Payload(key, st, co, det) ==
  [orderId |-> key.orderId, order_id |-> key.order_id,
   orderNumber |-> key.orderNumber, trackingNumber |-> key.trackingNumber,
   providerStatus |-> st, companyId |-> co.companyId,
   companyCode |-> co.companyCode, orderStatus |-> det.orderStatus,
   notes |-> det.notes, estimatedDate |-> det.estimatedDate,
   actualDate |-> det.actualDate, occurredAt |-> det.occurredAt]

\* no key at all, a key that matches nothing, a status to normalize, a
\* company id that matches nothing, unusable details
OtherPayloads ==
  { Payload(NoKey, <<"delivered">>, NoCompany, NoDetails),
    Payload([NoKey EXCEPT !.orderId = "o1"], <<"DELIVERED", Blank>>, NoCompany,
            BadDetails),
    Payload([NoKey EXCEPT !.orderId = MissingOrderId], <<"delivered">>,
            NoCompany, NoDetails),
    Payload([NoKey EXCEPT !.orderId = MissingOrderId, !.orderNumber = "ORD1"],
            <<"Picked", Blank, Blank, "UP">>, NoCompany, NoDetails),
    Payload([NoKey EXCEPT !.order_id = "o2"], <<"Done">>,
            [NoCompany EXCEPT !.companyId = MissingCompanyId], NoDetails) }

WebhookPayloads ==
  { Payload(key, st, co, det) :
      key \in PayloadOrderKeys, st \in PayloadStatuses, co \in PayloadCompanies,
      det \in PayloadDetails }
    \cup OtherPayloads

Header(scheme, gap, credential, trail) ==
  [scheme |-> scheme, gap |-> gap, credential |-> credential, trail |-> trail]

GoodHeader == Header("Bearer", 1, TokenA, 0)

\* the configured token under another spelling of the scheme and without a
\* scheme; another token; no header; a scheme without a token; another scheme
OtherHeaders ==
  { Header("BEARER", 2, TokenA, 1),
    Header("", 0, TokenA, 0),
    Header("Bearer", 1, TokenB, 0),
    Header("", 0, <<>>, 0),
    Header("Bearer", 1, <<>>, 0),
    Header("Basic", 1, TokenB, 0) }

WebhookRequests ==
  { [auth |-> GoodHeader, body |-> p] : p \in WebhookPayloads }
    \cup { [auth |-> h,
            body |-> Payload([NoKey EXCEPT !.orderId = "o1"], <<"delivered">>,
                             NoCompany, NoDetails)] : h \in OtherHeaders }

(***************************************************************************)
(* The webhook ingestor alone.                                             *)
(***************************************************************************)
InitWebhook == \E env \in {<<>>, TokenA} : InitWith(env, {"c1", "c2"}, {"c1"})

NextWebhook ==
  \/ Tick
  \/ \E req \in WebhookRequests, saveOk \in BOOLEAN :
       deliveryStatusWebhook(req, saveOk, TRUE)

SpecWebhook == InitWebhook /\ [][NextWebhook]_vars

(***************************************************************************)
(* Dispatch alone: sendOrder and batchSendOrders, from every choice of     *)
(* which of c1, c2 are active and whether c1 is flagged default.           *)
(***************************************************************************)
SendRequest(orderId, companyId, companyCode, fee) ==
  [orderId |-> orderId, companyId |-> companyId, companyCode |-> companyCode,
   deliveryFee |-> fee]

SendRequests ==
  { SendRequest("o1", co[1], co[2], co[3]) :
      co \in { <<"", "", <<5>>>>, <<"", "K2", <<>>>>,
               <<MissingCompanyId, "K2", <<5>>>>, <<"", "KX", <<5>>>>,
               <<"c3", "", <<5>>>> } }
    \cup { SendRequest("o2", "", co, <<>>) : co \in {"", "K1"} }
    \cup { SendRequest(MissingOrderId, co, "", <<>>) :
             co \in {"", MissingCompanyId} }
    \cup { SendRequest("", "", "", <<>>) }

\* the provider accepts, with or without a status of its own, or throws
ProviderOutcomes ==
  { ProviderReturns("TA", <<>>), ProviderReturns("TB", <<"Done">>),
    ProviderThrows("MAPPING_MISSING"), ProviderThrows("PARAMS_MISSING"),
    ProviderThrows("") }

SendEnvironments ==
  { [prov |-> prov, saveOk |-> TRUE] : prov \in ProviderOutcomes }
    \cup { [prov |-> ProviderReturns("TA", <<>>), saveOk |-> FALSE] }

BatchRequest(orderIds, companyId, companyCode, stopOnError) ==
  [orderIds |-> orderIds, companyId |-> companyId, companyCode |-> companyCode,
   deliveryFee |-> <<>>, stopOnError |-> stopOnError]

BatchRequests ==
  { BatchRequest(ids, "", "", stop) :
      ids \in { <<>>, <<"o1", MissingOrderId>>, <<MissingOrderId, "o1">>,
                <<"o2", "o1">> },
      stop \in BOOLEAN }
    \cup { BatchRequest(<<"o1", "o2">>, co[1], co[2], FALSE) :
             co \in { <<MissingCompanyId, "K2">>, <<"c3", "">> } }

\* per iteration: the provider accepts and the save succeeds, the provider
\* throws, the save fails
BatchEnvironments ==
  { [prov |-> ProviderReturns("TA", <<>>), saveOk |-> TRUE],
    [prov |-> ProviderThrows(""), saveOk |-> TRUE],
    [prov |-> ProviderReturns("TB", <<>>), saveOk |-> FALSE] }

InitDispatch ==
  \E actives \in SUBSET {"c1", "c2"}, defaults \in SUBSET {"c1"} :
    InitWith(TokenA, actives, defaults)

NextDispatch ==
  \/ Tick
  \/ \E req \in SendRequests, env \in SendEnvironments :
       sendOrder(req, env.prov, env.saveOk)
  \/ \E req \in BatchRequests :
       \E envs \in [1..Len(req.orderIds) -> BatchEnvironments] :
         batchSendOrders(req, envs)

SpecDispatch == InitDispatch /\ [][NextDispatch]_vars

(***************************************************************************)
(* The four operations that write delivery fields, together.               *)
(***************************************************************************)
AssignRequest(orderIds, companyId, tracking, deliveryStatus, orderStatus) ==
  [orderIds |-> orderIds, companyId |-> companyId, trackingNumber |-> tracking,
   deliveryStatus |-> deliveryStatus, orderStatus |-> orderStatus]

AssignRequests ==
  { AssignRequest(ids, "c1", tr, st, "") :
      ids \in { <<"o1">>, <<"o2", "o1">> }, tr \in {"", "TC"},
      st \in { <<>>, <<"delivered">>, <<"shipped">> } }
    \cup { AssignRequest(<<"o2">>, "c2", "", <<>>, "processing"),
           AssignRequest(<<"o1">>, MissingCompanyId, "TC", <<>>, ""),
           AssignRequest(<<"o1">>, "", "TC", <<>>, ""),
           AssignRequest(<<>>, "c1", "TC", <<>>, "") }

CoreWebhookRequests ==
  { [auth |-> GoodHeader, body |-> Payload(key, st, co, NoDetails)] :
      key \in { [NoKey EXCEPT !.orderId = "o1"],
                [NoKey EXCEPT !.trackingNumber = "T2"],
                [NoKey EXCEPT !.orderId = "o1", !.trackingNumber = "#7"] },
      st \in { <<Blank, "Delivered">>, <<"Done">> },
      co \in PayloadCompanies }
    \cup { [auth |-> GoodHeader,
            body |-> Payload([NoKey EXCEPT !.orderId = "o1"], <<"Done">>,
                             NoCompany, FullDetails)] }

CoreSendRequests ==
  { SendRequest("o1", "", "", <<5>>), SendRequest("o2", "", "K2", <<>>) }

CoreBatchRequests == { BatchRequest(<<"o2", "o1">>, "c2", "", FALSE) }

Init == InitWith(TokenA, {"c1", "c2"}, {"c1"})

Next ==
  \/ Tick
  \/ \E req \in AssignRequests, updateOk \in BOOLEAN :
       batchAssignOrders(req, updateOk)
  \/ \E req \in CoreWebhookRequests, saveOk \in BOOLEAN, notifyOk \in BOOLEAN :
       deliveryStatusWebhook(req, saveOk, notifyOk)
  \/ \E req \in CoreSendRequests, env \in SendEnvironments :
       sendOrder(req, env.prov, env.saveOk)
  \/ \E req \in CoreBatchRequests :
       \E envs \in [1..Len(req.orderIds) -> BatchEnvironments] :
         batchSendOrders(req, envs)

Spec == Init /\ [][Next]_vars

(***************************************************************************)
(* sendOrder one await at a time, part_000 lines 549-637, with two         *)
(* requests in flight.  order.save({ session }) is mongoose's              *)
(* Document.prototype.save: it sends one update that $sets the paths whose *)
(* assigned value differs from the value the document was loaded with,     *)
(* inside the request's transaction; the update is visible to others from  *)
(* commitTransaction on, and a write to a document that another open       *)
(* transaction has written throws (write conflict).                        *)
(***************************************************************************)
\* the paths save() sends: those assigned a value other than the loaded one
ModifiedPaths(doc, loaded) == {f \in DOMAIN doc : doc[f] # loaded[f]}

\* the stored document after the update of save()
ApplySave(stored, doc, loaded) ==
  [f \in DOMAIN stored |->
     IF f \in ModifiedPaths(doc, loaded) THEN doc[f] ELSE stored[f]]

\* lines 550-595: from the request to the await of sendToCompany
SendBegin(p, req) ==
  /\ nops < MaxOps
  /\ sends[p].pc \in {"idle", "done"}
  /\ LET company == SendResolveCompany(req.companyId, req.companyCode)
         order == OrderFindById(req.orderId)
         begun == [IdleSend EXCEPT !.req = req, !.company = company,
                                   !.order = order]
         answer(code, txn) ==
           [begun EXCEPT !.pc = "done", !.code = code, !.txn = txn]
     IN sends' = [sends EXCEPT ![p] =
          IF req.orderId = "" THEN answer(400, "none")
          ELSE IF order = "" \/ company = "" THEN answer(404, "none")
          ELSE IF SendPreflight(orders[order], company) # ""
          THEN answer(400, "open")
          ELSE [begun EXCEPT !.pc = "sending", !.loaded = orders[order],
                             !.doc = orders[order], !.txn = "open"]]
  /\ nops' = nops + 1
  /\ UNCHANGED <<orders, companies, envToken, now, last, sessions,
               paypalOrders, schedVars, trackerVars>>

\* lines 598-607: sendToCompany settles; on a result the fields are assigned
\* on the request's own document, on an error the catch block answers
SendProviderSettles(p, prov) ==
  /\ sends[p].pc = "sending"
  /\ LET s == sends[p]
     IN sends' = [sends EXCEPT ![p] =
          IF prov.ok
          THEN [s EXCEPT !.pc = "saving", !.prov = prov,
                         !.doc = SendUpdate(s.doc, s.company, prov,
                                            s.req.deliveryFee, now)]
          ELSE [s EXCEPT !.pc = "done", !.prov = prov,
                         !.code = SendErrorStatus(prov.code),
                         !.txn = "aborted"]]
  /\ UNCHANGED <<orders, companies, envToken, now, nops, last, sessions,
               paypalOrders, schedVars, trackerVars>>

\* line 608: order.save({ session })
SendSave(p, saveOk) ==
  /\ sends[p].pc = "saving"
  /\ LET s == sends[p]
         conflict == \E q \in Procs \ {p} :
                       sends[q].pc = "committing" /\ sends[q].order = s.order
     IN sends' = [sends EXCEPT ![p] =
          IF saveOk /\ ~conflict THEN [s EXCEPT !.pc = "committing"]
          ELSE [s EXCEPT !.pc = "done", !.code = SendErrorStatus(""),
                         !.txn = "aborted"]]
  /\ UNCHANGED <<orders, companies, envToken, now, nops, last, sessions,
               paypalOrders, schedVars, trackerVars>>

\* lines 610-622: commitTransaction, then the answer; rank numbers the
\* commits in the order they happen
SendCommit(p) ==
  /\ sends[p].pc = "committing"
  /\ LET s == sends[p]
         ranks == {sends[q].rank : q \in Procs}
         top == CHOOSE r \in ranks : \A x \in ranks : x <= r
     IN /\ orders' = [orders EXCEPT
                        ![s.order] = ApplySave(@, s.doc, s.loaded)]
        /\ sends' = [sends EXCEPT ![p] =
                       [s EXCEPT !.pc = "done", !.code = 200,
                                 !.txn = "committed", !.rank = top + 1]]
  /\ UNCHANGED <<companies, envToken, now, nops, last, sessions,
               paypalOrders, schedVars, trackerVars>>

\* o1 as an earlier sendOrder to c1 left it
DispatchedOrders ==
  [InitOrders EXCEPT
     !["o1"] = SendUpdate(@, "c1", ProviderReturns("T0", <<>>), <<5>>, 1)]

RaceRequests ==
  { SendRequest("o1", "", "", <<5>>), SendRequest("o1", "", "K2", <<5>>),
    SendRequest("o2", "", "", <<>>) }

RaceProviderOutcomes ==
  { ProviderReturns("TA", <<>>), ProviderReturns("TB", <<"Done">>),
    ProviderThrows("") }

InitRace ==
  /\ companies = [c \in Range(CompanyIds) |->
                    InitCompany(c, c \in {"c1", "c2"}, c = "c1")]
  /\ orders \in {InitOrders, DispatchedOrders}
  /\ sends = [p \in Procs |-> IdleSend]
  /\ sessions = [s \in Range(SessionIds) |-> NoSession]
  /\ envToken = TokenA
  /\ now = 1
  /\ nops = 0
  /\ last = NoResponse
  /\ InitCollaborators

NextRace ==
  \/ Tick
  \/ \E p \in Procs, req \in RaceRequests : SendBegin(p, req)
  \/ \E p \in Procs, prov \in RaceProviderOutcomes : SendProviderSettles(p, prov)
  \/ \E p \in Procs, saveOk \in BOOLEAN : SendSave(p, saveOk)
  \/ \E p \in Procs : SendCommit(p)

SpecRace == InitRace /\ [][NextRace]_vars

(***************************************************************************)
(* The Meshulam controller, part_001.  services/paymentSessionService.js   *)
(* is not part of src/.  createPaymentSessionDocument stores the document  *)
(* it is given.  finalizePaymentSessionToOrder(session, options) is what   *)
(* its callers use it as (part_001 line 187, and capturePayPalOrder, which *)
(* hands it a session whose status is still 'created'): it returns the     *)
(* session's order, creating it with options.paymentStatus when the        *)
(* session has none, or it throws; whether it also rewrites the session's  *)
(* status cannot be seen and is the environment's choice.                  *)
(***************************************************************************)
\* String(value || '').trim() of an id sent as text: one id between blanks
SessionIdOf(text) == IF Trim(text) = <<>> THEN "" ELSE Trim(text)[1]

\* PaymentSession.findById
SessionFindById(id) ==
  IF id \in Range(SessionIds) /\ sessions[id].exists THEN id ELSE ""

\* the _id of the next document created
NextSessionId ==
  FirstOf(SessionIds, {s \in Range(SessionIds) : ~sessions[s].exists})

Reply(op, req, code, msg) ==
  [NoResponse EXCEPT !.op = op, !.req = req, !.code = code, !.msg = msg]

\* lines 62-69: the message of the first check that fails, '' when none
SessionFromCartRefusal(body, settings) ==
  IF ~body.items THEN "items required"
  ELSE IF ~body.shippingAddress THEN "invalid_shipping"
  ELSE IF ~body.customerInfo THEN "invalid_customer"
  ELSE IF ~body.currency THEN "currency required"
  ELSE IF ~settings.enabled THEN "meshulam_disabled"
  ELSE IF ~settings.credentials THEN "meshulam_missing_credentials"
  ELSE ""

\* lines 59-140; gatewayOk is whether requestMeshulamPaymentProcess and the
\* save after it resolve
createMeshulamSessionFromCartHandler(body, settings, gatewayOk) ==
  /\ nops < MaxOps
  /\ NextSessionId # ""
  /\ LET refusal == SessionFromCartRefusal(body, settings)
         id == NextSessionId
     IN IF refusal # ""
        THEN /\ sessions' = sessions
             /\ last' = Reply("sessionFromCart", body, 400, refusal)
        ELSE /\ sessions' =
                  [sessions EXCEPT
                     ![id] = [NoSession EXCEPT
                                !.exists = TRUE, !.status = "created",
                                !.details = IF gatewayOk THEN "process" ELSE ""]]
             /\ last' =
                  [Reply("sessionFromCart", body,
                         IF gatewayOk THEN 200 ELSE 400,
                         IF gatewayOk THEN "ok" ELSE "meshulam_create_failed")
                     EXCEPT !.target = id]
  /\ nops' = nops + 1
  /\ UNCHANGED <<orders, companies, envToken, now, sends,
               paypalOrders, schedVars, trackerVars>>

\* lines 160-175, after the session was saved as approved: the approve
\* payload is incomplete (findMissingApproveFields), or the gateway's
\* approveTransaction call succeeds, or it throws
\* (meshulamService.js lines 354-378)
ApproveOutcomes == {"missing", "approved", "failed"}

\* lines 164, 171: what the handler stores of the approve call
ApproveStored(approve) == IF approve = "failed" THEN "" ELSE approve

\* lines 142-179; saveOk is whether session.save() (line 158) resolves
meshulamCallbackHandler(payload, saveOk, approve) ==
  /\ nops < MaxOps
  /\ LET sessionId == SessionIdOf(payload.cField1)
         session == SessionFindById(sessionId)
     IN IF sessionId = ""
        THEN /\ sessions' = sessions
             /\ last' = Reply("callback", payload, 400, "session_not_found")
        ELSE IF session = ""
        THEN /\ sessions' = sessions
             /\ last' = Reply("callback", payload, 404, "session_not_found")
        ELSE IF ~saveOk
        THEN /\ sessions' = sessions
             /\ last' = Reply("callback", payload, 500, "save failed")
        ELSE /\ sessions' = [sessions EXCEPT ![session].status = "approved",
                                             ![session].callback = "callback",
                                             ![session].approve =
                                                ApproveStored(approve)]
             /\ last' = [Reply("callback", payload, 200,
                               IF approve = "missing" THEN "missing" ELSE "ok")
                           EXCEPT !.target = session, !.prov.code = approve]
  /\ nops' = nops + 1
  /\ UNCHANGED <<orders, companies, envToken, now, sends,
               paypalOrders, schedVars, trackerVars>>

\* finalizePaymentSessionToOrder(session, { paymentMethod, paymentStatus })
\* when it returns; marks is whether it rewrites the session's status
FinalizeSession(session, paymentMethod, paymentStatus, marks) ==
  [session EXCEPT
     !.order = IF @ = <<>>
               THEN <<[paymentMethod |-> paymentMethod,
                       paymentStatus |-> paymentStatus]>>
               ELSE @,
     !.status = IF marks THEN "completed" ELSE @]

\* lines 181-194; fin is what finalizePaymentSessionToOrder does
confirmMeshulamSessionHandler(body, fin) ==
  /\ nops < MaxOps
  /\ LET sessionId == SessionIdOf(body.sessionId)
         ps == SessionFindById(sessionId)
     IN IF sessionId = ""
        THEN /\ sessions' = sessions
             /\ last' = Reply("confirm", body, 400, "sessionId required")
        ELSE IF ps = ""
        THEN /\ sessions' = sessions
             /\ last' = Reply("confirm", body, 404, "session_not_found")
        ELSE IF ~fin.ok
        THEN /\ sessions' = sessions
             /\ last' = Reply("confirm", body, 500, "finalize failed")
        ELSE /\ sessions' =
                  [sessions EXCEPT
                     ![ps] = FinalizeSession(@, "card", "completed", fin.marks)]
             /\ last' = [Reply("confirm", body, 200, "ok") EXCEPT !.target = ps]
  /\ nops' = nops + 1
  /\ UNCHANGED <<orders, companies, envToken, now, sends,
               paypalOrders, schedVars, trackerVars>>

\* lines 196-203: reads only
getMeshulamSessionOrderHandler(params) ==
  /\ nops < MaxOps
  /\ LET sessionId == SessionIdOf(params.sessionId)
         session == SessionFindById(sessionId)
     IN last' =
          IF sessionId = "" THEN Reply("sessionOrder", params, 400, "sessionId required")
          ELSE IF session = ""
          THEN Reply("sessionOrder", params, 404, "session_not_found")
          ELSE IF sessions[session].order = <<>>
          THEN Reply("sessionOrder", params, 200, "order: null")
          ELSE [Reply("sessionOrder", params, 200, "order")
                  EXCEPT !.target = session]
  /\ nops' = nops + 1
  /\ UNCHANGED <<orders, companies, envToken, now, sends, sessions,
               paypalOrders, schedVars, trackerVars>>

CartBody(items, shippingAddress, customerInfo, currency) ==
  [items |-> items, shippingAddress |-> shippingAddress,
   customerInfo |-> customerInfo, currency |-> currency]

\* a complete cart, and one without each of the four required parts
CartBodies ==
  { CartBody(TRUE, TRUE, TRUE, TRUE), CartBody(FALSE, TRUE, TRUE, TRUE),
    CartBody(TRUE, FALSE, TRUE, TRUE), CartBody(TRUE, TRUE, FALSE, TRUE),
    CartBody(TRUE, TRUE, TRUE, FALSE) }

MeshulamSettings ==
  { [enabled |-> TRUE, credentials |-> TRUE],
    [enabled |-> FALSE, credentials |-> TRUE],
    [enabled |-> TRUE, credentials |-> FALSE] }

\* a session id as the request spells it
SessionIdTexts ==
  { <<>>, <<Blank>>, <<"s1">>, <<Blank, "s1", Blank>>, <<"s2">>,
    <<MissingSessionId>> }

FinalizeOutcomes ==
  { [ok |-> TRUE, marks |-> TRUE], [ok |-> TRUE, marks |-> FALSE],
    [ok |-> FALSE, marks |-> FALSE] }

InitPayment == InitWith(TokenA, {"c1", "c2"}, {"c1"})

NextPayment ==
  \/ \E body \in CartBodies, settings \in MeshulamSettings,
        gatewayOk \in BOOLEAN :
       createMeshulamSessionFromCartHandler(body, settings, gatewayOk)
  \/ \E text \in SessionIdTexts, saveOk \in BOOLEAN, approve \in ApproveOutcomes :
       meshulamCallbackHandler([cField1 |-> text], saveOk, approve)
  \/ \E text \in SessionIdTexts, fin \in FinalizeOutcomes :
       confirmMeshulamSessionHandler([sessionId |-> text], fin)
  \/ \E text \in SessionIdTexts :
       getMeshulamSessionOrderHandler([sessionId |-> text])

SpecPayment == InitPayment /\ [][NextPayment]_vars

(***************************************************************************)
(* The admin operations on DeliveryCompany, part_000 lines 52-102.  The    *)
(* schema (models/DeliveryCompany.js) is not part of src/: whether         *)
(* mongoose's validation lets a document through is the environment's      *)
(* choice (valid), and what is let through is stored as the handler built  *)
(* it.                                                                     *)
(***************************************************************************)
\* lines 63-66 and 94-97: the filter on statusMapping
SanitizeStatusMapping(mapping) ==
  LET Keeps(m) == Trim(m.companyStatus) # <<>> /\ Trim(m.internalStatus) # <<>>
  IN SelectSeq(mapping, Keeps)

\* the first id, in collection order, that no company has
NextCompanyId ==
  FirstOf(CompanyIds, {c \in Range(CompanyIds) : ~companies[c].exists})

\* lines 52-56: new DeliveryCompany(req.body), save
createCompany(body, valid) ==
  /\ nops < MaxOps
  /\ NextCompanyId # ""
  /\ IF valid
     THEN /\ companies' =
               [companies EXCEPT
                  ![NextCompanyId] =
                     [InitCompany(NextCompanyId, body.isActive, FALSE)
                        EXCEPT !.statusMapping = body.statusMapping]]
          /\ last' = [Reply("createCompany", body, 201, "") EXCEPT
                        !.company = NextCompanyId]
     ELSE /\ companies' = companies
          /\ last' = Reply("createCompany", body, 500, "validation failed")
  /\ nops' = nops + 1
  /\ UNCHANGED <<orders, envToken, now, sends, sessions,
               paypalOrders, schedVars, trackerVars>>

\* lines 59-75: body.hasMapping is Array.isArray(body.statusMapping)
updateCompany(id, body, valid) ==
  /\ nops < MaxOps
  /\ LET company == CompanyFindById(id)
         mapping == SanitizeStatusMapping(body.statusMapping)
     IN IF ~valid
        THEN /\ companies' = companies
             /\ last' = Reply("updateCompany", body, 500, "validation failed")
        ELSE IF company = ""
        THEN /\ companies' = companies
             /\ last' = Reply("updateCompany", body, 404,
                              "Delivery company not found")
        ELSE /\ companies' =
                  [companies EXCEPT
                     ![company].isActive = body.isActive,
                     ![company].statusMapping =
                        IF body.hasMapping THEN mapping ELSE @]
             /\ last' = [Reply("updateCompany", body, 200, "") EXCEPT
                           !.company = company]
  /\ nops' = nops + 1
  /\ UNCHANGED <<orders, envToken, now, sends, sessions,
               paypalOrders, schedVars, trackerVars>>

\* lines 78-82
deleteCompany(id) ==
  /\ nops < MaxOps
  /\ LET company == CompanyFindById(id)
     IN IF company = ""
        THEN /\ companies' = companies
             /\ last' = Reply("deleteCompany", id, 404,
                              "Delivery company not found")
        ELSE /\ companies' = [companies EXCEPT ![company].exists = FALSE]
             /\ last' = Reply("deleteCompany", id, 200,
                              "Delivery company deleted successfully")
  /\ nops' = nops + 1
  /\ UNCHANGED <<orders, envToken, now, sends, sessions,
               paypalOrders, schedVars, trackerVars>>

\* lines 85-102: body.required are the order fields its fieldMappings mark
\* required
updateFieldMappings(id, body, valid) ==
  /\ nops < MaxOps
  /\ LET company == CompanyFindById(id)
     IN IF company = ""
        THEN /\ companies' = companies
             /\ last' = Reply("updateFieldMappings", body, 404,
                              "Delivery company not found")
        ELSE IF ~valid
        THEN /\ companies' = companies
             /\ last' = Reply("updateFieldMappings", body, 500,
                              "validation failed")
        ELSE /\ companies' =
                  [companies EXCEPT
                     ![company].requiredFields = body.required,
                     ![company].statusMapping = SanitizeStatusMapping(@)]
             /\ last' = [Reply("updateFieldMappings", body, 200,
                               "Field mappings updated successfully")
                           EXCEPT !.company = company]
  /\ nops' = nops + 1
  /\ UNCHANGED <<orders, envToken, now, sends, sessions,
               paypalOrders, schedVars, trackerVars>>

MappingEntry(companyStatus, internalStatus) ==
  [companyStatus |-> companyStatus, internalStatus |-> internalStatus]

\* no table; one good entry; a good one between one whose companyStatus is
\* blank and one whose internalStatus is empty
StatusMappings ==
  { <<>>,
    <<MappingEntry(<<"Done">>, <<"delivered">>)>>,
    <<MappingEntry(<<Blank>>, <<"delivered">>),
      MappingEntry(<<"Picked", Blank, "UP">>, <<"picked", "_", "up">>),
      MappingEntry(<<"Done">>, <<>>)>> }

CompanyBodies ==
  { [isActive |-> TRUE, hasMapping |-> TRUE, statusMapping |-> m] :
      m \in StatusMappings }
    \cup { [isActive |-> FALSE, hasMapping |-> FALSE, statusMapping |-> <<>>] }

FieldMappingBodies == { [required |-> {}], [required |-> {"customerPhone"}] }

AdminCompanyIds == { "c1", "c3", MissingCompanyId }

\* c1 and c2 exist, the third company is still to be created
InitAdmin ==
  /\ companies = [c \in Range(CompanyIds) |->
                    [InitCompany(c, TRUE, c = "c1") EXCEPT !.exists = c # "c3"]]
  /\ orders = InitOrders
  /\ sends = [p \in Procs |-> IdleSend]
  /\ sessions = [s \in Range(SessionIds) |-> NoSession]
  /\ envToken = TokenA
  /\ now = 1
  /\ nops = 0
  /\ last = NoResponse
  /\ InitCollaborators

NextAdmin ==
  \/ \E body \in CompanyBodies, valid \in BOOLEAN : createCompany(body, valid)
  \/ \E id \in AdminCompanyIds, body \in CompanyBodies, valid \in BOOLEAN :
       updateCompany(id, body, valid)
  \/ \E id \in AdminCompanyIds : deleteCompany(id)
  \/ \E id \in AdminCompanyIds, body \in FieldMappingBodies, valid \in BOOLEAN :
       updateFieldMappings(id, body, valid)

SpecAdmin == InitAdmin /\ [][NextAdmin]_vars

(***************************************************************************)
(* Properties.                                                             *)
(***************************************************************************)
\* a step that handles one request of operation op
Handles(op) == nops' = nops + 1 /\ last'.op = op

\* C1: a webhook request whose bearer token is absent or is not the
\* configured token is answered 401 and changes no order document.
C1_BadTokenIs401AndWritesNothing ==
  [][ ( /\ Handles("webhook")
        /\ envToken # <<>>
        /\ ( \/ last'.req.auth.credential = <<>>
             \/ last'.req.auth.credential # envToken ) )
      => (last'.code = 401 /\ orders' = orders) ]_vars

\* a request with another token was answered, after an accepted one had
\* written to an order
C1_Witness ==
  /\ last.op = "webhook"
  /\ last.req.auth.credential = TokenB
  /\ last.code = 401
  /\ orders # InitOrders

\* the delivery fields C2 names
C2Fields(order) ==
  <<order.deliveryStatus, order.deliveryStatusUpdated,
    order.deliveryTrackingNumber, order.trackingNumber, order.deliveryCompany,
    order.deliveryNotes, order.deliveryEstimatedDate, order.deliveryActualDate,
    order.status>>

\* they without deliveryStatusUpdated
C2FieldsButUpdated(order) ==
  <<order.deliveryStatus, order.deliveryTrackingNumber, order.trackingNumber,
    order.deliveryCompany, order.deliveryNotes, order.deliveryEstimatedDate,
    order.deliveryActualDate, order.status>>

\* C2 as claimed: the accepted payload applied a second time in succession
\* leaves every delivery field, deliveryStatusUpdated included, as the first
\* application left it.
C2_RepeatKeepsEveryField ==
  [][ (Handles("webhook") /\ last'.repeat)
      => \A o \in Range(OrderIds) : C2Fields(orders'[o]) = C2Fields(orders[o]) ]_vars

\* C2 as amended: the repeat leaves deliveryStatus, both tracking numbers,
\* deliveryCompany, deliveryNotes, deliveryEstimatedDate, deliveryActualDate
\* and status as the first application left them; deliveryStatusUpdated too
\* when the payload carries a valid occurredAt, and otherwise it becomes the
\* time of the repeat.
C2_RepeatKeepsFieldsButStamp ==
  [][ (Handles("webhook") /\ last'.repeat)
      => \A o \in Range(OrderIds) :
           /\ C2FieldsButUpdated(orders'[o]) = C2FieldsButUpdated(orders[o])
           /\ parseOptionalDate(last'.req.body.occurredAt) # 0
                => orders'[o].deliveryStatusUpdated = orders[o].deliveryStatusUpdated
           /\ ( /\ parseOptionalDate(last'.req.body.occurredAt) = 0
                /\ last'.code = 200
                /\ o = last'.target )
                => orders'[o].deliveryStatusUpdated = now' ]_vars

\* a payload reporting a delivery without dates was accepted twice, the
\* second time later than the first
C2_Witness ==
  /\ last.op = "webhook" /\ last.repeat /\ last.code = 200
  /\ last.req.body.providerStatus = <<Blank, "Delivered">>
  /\ last.req.body.actualDate = 0
  /\ orders[last.target].deliveryStatus = <<"delivered">>
  /\ orders[last.target].deliveryActualDate = 1
  /\ orders[last.target].deliveryStatusUpdated = 2

\* C3: an order whose deliveryStatus is delivered has deliveryActualDate
\* populated, whichever operation set the status.
C3_DeliveredHasActualDate ==
  \A o \in Range(OrderIds) :
    orders[o].deliveryStatus = <<"delivered">> => orders[o].deliveryActualDate # 0

\* C4: the deliveryStatus stored on an order is one of the eight internal
\* values (or not set yet).
C4_StoredStatusIsInternal ==
  \A o \in Range(OrderIds) :
    orders[o].deliveryStatus \in DELIVERY_ALLOWED_STATUSES \cup {<<>>}

\* C5: after an operation that sets either tracking field of an order, the
\* order's deliveryTrackingNumber and trackingNumber are equal.
C5_TrackingFieldsMirrored ==
  [][ \A o \in Range(OrderIds) :
        ( \/ orders'[o].deliveryTrackingNumber # orders[o].deliveryTrackingNumber
          \/ orders'[o].trackingNumber # orders[o].trackingNumber )
        => orders'[o].deliveryTrackingNumber = orders'[o].trackingNumber ]_vars

\* batchAssignOrders gave the order that had only the legacy field a new
\* tracking number
C5_Witness ==
  /\ last.op = "batchAssignOrders" /\ last.code = 200
  /\ last.req.trackingNumber = "TC"
  /\ "o2" \in Range(last.req.orderIds)
  /\ orders["o2"].deliveryTrackingNumber = "TC"
  /\ orders["o2"].trackingNumber = "TC"

\* C6: sendOrder with an orderId that matches no order answers 404, calls no
\* provider and leaves the order collection as it was.
C6_MissingOrderIs404AndWritesNothing ==
  [][ ( /\ Handles("sendOrder")
        /\ last'.req.orderId # ""
        /\ last'.req.orderId \notin Range(OrderIds) )
      => (last'.code = 404 /\ last'.calls = <<>> /\ orders' = orders) ]_vars

\* an unknown order id was answered after an earlier dispatch had written to
\* an order
C6_Witness ==
  /\ last.op = "sendOrder" /\ last.req.orderId = MissingOrderId
  /\ last.code = 404 /\ last.msg = "Order not found"
  /\ \E o \in Range(OrderIds) : orders[o].deliveryCompany # ""

\* C7: in sendOrder, when the configuration validator or the field-mapping
\* validator reports ok = false for the order and the resolved company, the
\* answer is 400, the provider is not called and no order is modified.
C7_FailedValidationIs400AndWritesNothing ==
  [][ ( /\ Handles("sendOrder")
        /\ last'.req.orderId \in Range(OrderIds)
        /\ last'.company # ""
        /\ ( \/ ~validateCompanyConfiguration(last'.company).ok
             \/ ~validateRequiredMappings(orders[last'.req.orderId],
                                          last'.company).ok ) )
      => (last'.code = 400 /\ last'.calls = <<>> /\ orders' = orders) ]_vars

\* the order without a phone was refused for c1, which requires it
C7_Witness ==
  /\ last.op = "sendOrder" /\ last.code = 400
  /\ last.msg = "Missing required mapped fields"
  /\ last.target = "o2" /\ last.company = "c1"

\* the company C8 claims: the first step of the chain that resolves one
C8Claimed(companyId, companyCode) ==
  LET byId == IF companyId # "" THEN CompanyFindById(companyId) ELSE ""
      byCode == IF companyCode # "" THEN CompanyFindByCode(companyCode) ELSE ""
  IN IF byId # "" THEN byId
     ELSE IF byCode # "" THEN byCode
     ELSE IF CompanyFindActiveDefault # "" THEN CompanyFindActiveDefault
     ELSE CompanyFindFirstActiveByName

\* C8: sendOrder and batchSendOrders dispatch to the first company that
\* resolves among companyId, companyCode, the active default, the first
\* active company by name, each step tried when every earlier one resolved
\* nothing; 404 company-not-found only when none resolves.
C8_CompanyIsFirstThatResolves ==
  ( /\ last.op \in {"sendOrder", "batchSendOrders"}
    /\ last.msg \notin {"orderId is required", "orderIds array is required",
                        "Order not found"} )
  => /\ last.company = C8Claimed(last.req.companyId, last.req.companyCode)
     /\ last.msg = "Delivery company not found" <=> last.company = ""

\* the order ids of seq for which both validators pass with company
C9Sendable(ids, company) ==
  LET Passes(o) ==
        /\ o \in Range(OrderIds)
        /\ validateCompanyConfiguration(company).ok
        /\ validateRequiredMappings(orders[o], company).ok
  IN SelectSeq(ids, Passes)

\* C9: batchSendOrders with stopOnError = false answers with one result per
\* input id, in input order; every id is looked up and every order that
\* passes validation is sent to the provider, whatever failed before it; the
\* entry of a missing order is a failure with error 'Order not found'.
C9_BatchReportsEveryOrder ==
  ( /\ last.op = "batchSendOrders" /\ last.code = 200
    /\ ~last.req.stopOnError )
  => LET ids == last.req.orderIds
         res == last.results
     IN /\ Len(res) = Len(ids)
        /\ \A i \in 1..Len(ids) : res[i].orderId = ids[i]
        /\ last.lookups = ids
        /\ [i \in 1..Len(last.calls) |-> last.calls[i].orderId]
             = C9Sendable(ids, last.company)
        /\ \A i \in 1..Len(ids) :
             ids[i] \notin Range(OrderIds)
               => (~res[i].success /\ res[i].error = "Order not found")
        /\ last.total = Len(ids)

\* the first id matched no order and the second order was sent all the same
C9_Witness ==
  /\ last.op = "batchSendOrders" /\ last.code = 200
  /\ ~last.req.stopOnError
  /\ last.req.orderIds = <<MissingOrderId, "o1">>
  /\ last.results[1].error = "Order not found"
  /\ last.results[2].success
  /\ orders["o1"].deliveryTrackingNumber = "TA"

\* C10: batchSendOrders with stopOnError = true stops at the first failing
\* order: the results end with that failure, and no order after it in the
\* input is looked up, sent to the provider or modified.
C10_StopOnErrorStopsAtFirstFailure ==
  [][ ( /\ Handles("batchSendOrders") /\ last'.code = 200
        /\ last'.req.stopOnError
        /\ \E i \in 1..Len(last'.results) : ~last'.results[i].success )
      => LET ids == last'.req.orderIds
             n == Len(last'.results)
             before == {ids[i] : i \in 1..(n - 1)}
         IN /\ n <= Len(ids)
            /\ \A i \in 1..n : last'.results[i].orderId = ids[i]
            /\ \A i \in 1..n : last'.results[i].success <=> i < n
            /\ last'.lookups = SubSeq(ids, 1, n)
            /\ \A i \in 1..Len(last'.calls) :
                 last'.calls[i].orderId \in before \cup {ids[n]}
            /\ \A o \in Range(OrderIds) :
                 o \notin before => orders'[o] = orders[o] ]_vars

\* the first id matched no order: the batch ended there and the second
\* order was left as it was
C10_Witness ==
  /\ last.op = "batchSendOrders" /\ last.code = 200
  /\ last.req.stopOnError
  /\ last.req.orderIds = <<MissingOrderId, "o1">>
  /\ Len(last.results) = 1 /\ ~last.results[1].success
  /\ last.lookups = <<MissingOrderId>>
  /\ last.calls = <<>>
  /\ orders["o1"] = InitOrders["o1"]

\* C11: when the provider call or the order save throws during sendOrder, the
\* transaction is aborted and no stored order changes; the answer is 400 when
\* the error's code is MAPPING_MISSING or PARAMS_MISSING and 500 for every
\* other error.
C11_ThrowAbortsAndKeepsOrder ==
  [][ (Handles("sendOrder") /\ last'.calls # <<>> /\ last'.code # 200)
      => /\ last'.txn = "aborted"
         /\ orders' = orders
         /\ last'.sessionEnds = 1
         /\ last'.code =
              IF ~last'.prov.ok
                 /\ last'.prov.code \in {"MAPPING_MISSING", "PARAMS_MISSING"}
              THEN 400 ELSE 500 ]_vars

\* the provider threw PARAMS_MISSING for an order that an earlier dispatch
\* had assigned: 400, and the order is as that dispatch left it
C11_Witness ==
  /\ last.op = "sendOrder" /\ last.code = 400
  /\ last.prov.code = "PARAMS_MISSING"
  /\ last.txn = "aborted"
  /\ last.target = "o1"
  /\ orders["o1"].deliveryTrackingNumber = "TA"

\* C12: after a sendOrder answered 200 the stored order has deliveryCompany =
\* the resolved company, both tracking numbers = the provider's tracking
\* number, deliveryStatus = mapStatus(company, providerStatus or 'assigned'),
\* deliveryFee = the requested fee (0 when omitted), deliveryResponse = the
\* provider's response and deliveryAssignedAt = the time of the request; the
\* transaction was committed before the answer.
C12_SentOrderHasDispatchFields ==
  [][ (Handles("sendOrder") /\ last'.code = 200)
      => LET req == last'.req
             o == orders'[req.orderId]
             p == last'.prov
         IN /\ last'.company # ""
            /\ last'.company = SendResolveCompany(req.companyId, req.companyCode)
            /\ o.deliveryCompany = last'.company
            /\ p.ok
            /\ o.deliveryTrackingNumber = p.trackingNumber
            /\ o.trackingNumber = p.trackingNumber
            /\ o.deliveryStatus =
                 mapStatus(last'.company,
                           IF p.providerStatus = <<>> THEN <<"assigned">>
                           ELSE p.providerStatus)
            /\ o.deliveryFee = (IF req.deliveryFee = <<>> THEN 0
                                ELSE req.deliveryFee[1])
            /\ o.deliveryResponse = p.providerResponse
            /\ o.deliveryAssignedAt = now /\ now > 0
            /\ last'.txn = "committed" ]_vars

\* the order was sent to c2 without a fee, at time 2, the provider answering
\* with a status of its own that c2 does not map
C12_Witness ==
  /\ last.op = "sendOrder" /\ last.code = 200 /\ last.txn = "committed"
  /\ last.target = "o1" /\ last.company = "c2"
  /\ last.req.deliveryFee = <<>>
  /\ last.prov.providerStatus = <<"Done">>
  /\ orders["o1"].deliveryFee = 0
  /\ orders["o1"].deliveryStatus = <<"assigned">>
  /\ orders["o1"].deliveryTrackingNumber = "TB"
  /\ orders["o1"].deliveryAssignedAt = 2

\* C13: a dispatch (sendOrder, batchSendOrders) never changes the
\* deliveryStatus of an order that already has one, and the status it writes
\* is assigned.
C13_DispatchOnlyAssignsUnassigned ==
  [][ (Handles("sendOrder") \/ Handles("batchSendOrders"))
      => \A o \in Range(OrderIds) :
           /\ orders[o].deliveryStatus # <<>>
                => orders'[o].deliveryStatus = orders[o].deliveryStatus
           /\ orders'[o].deliveryStatus # orders[o].deliveryStatus
                => orders'[o].deliveryStatus = <<"assigned">> ]_vars

\* the ranks of the chain unassigned -> assigned -> picked_up -> in_transit
\* -> out_for_delivery -> {delivered, returned, cancelled}
C14Rank(status) ==
  CASE status = <<>> -> 0
    [] status = <<"assigned">> -> 1
    [] status = <<"picked", "_", "up">> -> 2
    [] status = <<"in", "_", "transit">> -> 3
    [] status = <<"out", "_", "for", "_", "delivery">> -> 4
    [] status \in {<<"delivered">>, <<"returned">>, <<"cancelled">>} -> 5
    [] OTHER -> 4

\* C14: over dispatches and webhook updates every change of an order's
\* deliveryStatus moves forward along the chain or enters delivery_failed
\* from a pre-terminal state; delivered, returned and cancelled are never
\* left.
C14_StatusFollowsStateMachine ==
  [][ (Handles("sendOrder") \/ Handles("batchSendOrders") \/ Handles("webhook"))
      => \A o \in Range(OrderIds) :
           orders'[o].deliveryStatus # orders[o].deliveryStatus
           => /\ C14Rank(orders[o].deliveryStatus) < 5
              /\ \/ orders'[o].deliveryStatus = <<"delivery", "_", "failed">>
                 \/ orders[o].deliveryStatus = <<"delivery", "_", "failed">>
                 \/ C14Rank(orders'[o].deliveryStatus)
                      > C14Rank(orders[o].deliveryStatus) ]_vars

\* the delivery fields C15 names
C15Fields(order) ==
  <<order.deliveryCompany, order.deliveryTrackingNumber, order.trackingNumber,
    order.deliveryStatus, order.deliveryFee, order.deliveryResponse>>

\* C15: when two sendOrder requests for the same order have both called the
\* provider and both been answered 200, the stored order has the delivery
\* fields of the request whose save was committed last, all of them.
C15_LastSaveWinsWhole ==
  \A p, q \in Procs :
    ( /\ sends[p].code = 200 /\ sends[q].code = 200
      /\ sends[p].order = sends[q].order
      /\ sends[p].rank > sends[q].rank )
    => /\ sends[p].prov.ok /\ sends[q].prov.ok
       /\ C15Fields(orders[sends[p].order]) = C15Fields(sends[p].doc)

\* the fields that are not delivery fields: contents, payment, general status
C16Fields(order) ==
  <<order.orderNumber, order.customerPhone, order.paymentStatus, order.status>>

\* C16 as claimed: sendOrder, batchSendOrders, batchAssignOrders and the
\* webhook leave every non-delivery field of every order unchanged, the
\* order's general status included.
C16_NonDeliveryFieldsUnchanged ==
  [][ \A o \in Range(OrderIds) : C16Fields(orders'[o]) = C16Fields(orders[o]) ]_vars

\* C16 as amended: the four operations leave order contents and payment
\* fields unchanged; the general status changes only in an accepted webhook
\* or batchAssignOrders request that carries an orderStatus, and becomes
\* that value; sendOrder and batchSendOrders never change it.
C16_OnlyRequestedOrderStatusChanges ==
  [][ \A o \in Range(OrderIds) :
        /\ orders'[o].orderNumber = orders[o].orderNumber
        /\ orders'[o].customerPhone = orders[o].customerPhone
        /\ orders'[o].paymentStatus = orders[o].paymentStatus
        /\ orders'[o].status # orders[o].status
             => /\ last'.code = 200
                /\ \/ /\ Handles("webhook")
                      /\ o = last'.target
                      /\ last'.req.body.orderStatus # ""
                      /\ orders'[o].status = String(last'.req.body.orderStatus)
                   \/ /\ Handles("batchAssignOrders")
                      /\ o \in Range(last'.req.orderIds)
                      /\ last'.req.orderStatus # ""
                      /\ orders'[o].status = last'.req.orderStatus ]_vars

\* a webhook carrying orderStatus 'shipped' was accepted for an order that a
\* dispatch had assigned: the status is shipped, the payment is as it was
C16_Witness ==
  /\ last.op = "webhook" /\ last.code = 200 /\ last.target = "o1"
  /\ last.req.body.orderStatus = "shipped"
  /\ orders["o1"].status = "shipped"
  /\ orders["o1"].paymentStatus = "pending"
  /\ orders["o1"].deliveryAssignedAt # 0

\* C17: confirmMeshulamSessionHandler creates an order with paymentStatus
\* completed only for a session that a gateway callback has set to approved;
\* a session whose status is created gets no paid order.
C17_ConfirmFinalizesOnlyPaidSessions ==
  [][ Handles("confirm")
      => \A s \in Range(SessionIds) :
           ( /\ sessions'[s].order # sessions[s].order
             /\ sessions'[s].order[1].paymentStatus = "completed" )
           => sessions[s].status = "approved" ]_vars

\* the company C18 claims for a payload and the order it names
C18Claimed(p, order) ==
  LET byId == IF p.companyId # "" THEN CompanyFindById(p.companyId) ELSE ""
      byCode == IF p.companyCode # ""
                THEN CompanyFindByCode(String(p.companyCode)) ELSE ""
  IN IF byId # "" THEN byId
     ELSE IF byCode # "" THEN byCode
     ELSE IF order.deliveryCompany # "" THEN CompanyFindById(order.deliveryCompany)
     ELSE ""

\* C18: the webhook maps the status with the company the payload's company
\* id or code resolves, otherwise with the order's assigned company,
\* otherwise with none; an id or code that matches no company falls back to
\* the order's assigned company.
C18_WebhookCompanyFallsBack ==
  [][ (Handles("webhook") /\ last'.code = 200)
      => /\ last'.company = C18Claimed(last'.req.body, orders[last'.target])
         /\ orders'[last'.target].deliveryStatus =
              WebhookMappedStatus(last'.req.body,
                                  C18Claimed(last'.req.body,
                                             orders[last'.target])) ]_vars

\* the order C19 claims for a payload: the first key that finds one
C19Claimed(p, ords) ==
  LET byId == IF WebhookOrderId(p) = "" THEN ""
              ELSE IF WebhookOrderId(p) \in Range(OrderIds) THEN WebhookOrderId(p)
              ELSE ""
      byNumber == IF WebhookOrderNumber(p) = "" THEN ""
                  ELSE FirstOf(OrderIds,
                               {o \in Range(OrderIds) :
                                  ords[o].orderNumber = String(WebhookOrderNumber(p))})
      byTracking == IF p.trackingNumber = "" THEN ""
                    ELSE FirstOf(OrderIds,
                                 {o \in Range(OrderIds) :
                                    String(p.trackingNumber)
                                      \in {ords[o].deliveryTrackingNumber,
                                           ords[o].trackingNumber}})
  IN IF byId # "" THEN byId ELSE IF byNumber # "" THEN byNumber ELSE byTracking

\* C19: an authorized webhook that carries a key updates the order found by
\* order id, else by order number, else by tracking number against either
\* tracking field, and no other order; when no key finds an order the answer
\* is 404 order_not_found and no order is modified.
C19_WebhookOrderIsFirstKeyThatMatches ==
  [][ ( /\ Handles("webhook")
        /\ last'.msg \notin {"webhook_not_configured", "invalid_token",
                              "orderId, orderNumber, or trackingNumber is required"} )
      => LET claimed == C19Claimed(last'.req.body, orders)
         IN /\ claimed = ""
                 => /\ last'.code = 404 /\ last'.msg = "order_not_found"
                    /\ orders' = orders
            /\ claimed # ""
                 => /\ last'.code \in {200, 500}
                    /\ last'.code = 200 => last'.target = claimed
                    /\ \A o \in Range(OrderIds) \ {claimed} :
                         orders'[o] = orders[o] ]_vars

\* the payload's order id matched nothing and its order number found o1
C19_Witness ==
  /\ last.op = "webhook" /\ last.code = 200
  /\ last.req.body.orderId = MissingOrderId
  /\ last.req.body.orderNumber = "ORD1"
  /\ last.target = "o1"
  /\ orders["o1"].deliveryStatus = <<"picked", "_", "up">>

\* a tracking number that only the legacy field carries found o2
C19_WitnessLegacyTracking ==
  /\ last.op = "webhook" /\ last.code = 200
  /\ last.req.body.trackingNumber = "T2"
  /\ last.req.body.orderId = "" /\ last.req.body.order_id = ""
  /\ last.target = "o2"
  /\ orders["o2"].deliveryTrackingNumber = "T2"

\* no key of the payload found an order
C19_WitnessNotFound ==
  /\ last.op = "webhook" /\ last.code = 404
  /\ last.req.body.orderId = MissingOrderId
  /\ orders # InitOrders

\* C20: in the webhook the order-update event is emitted only after the
\* order save has succeeded, and when emitting fails the answer is still the
\* 200 of the update and the update stays on the stored order.
C20_NotifyAfterSaveAndBestEffort ==
  [][ Handles("webhook")
      => LET e == last'.effects
             emits == {i \in 1..Len(e) : e[i] \in {"emit", "emit threw"}}
         IN /\ \A i \in emits : i > 1 /\ e[i - 1] = "save"
            /\ last'.code = 200 <=> emits # {}
            /\ (\E i \in emits : e[i] = "emit threw")
                 => /\ last'.code = 200 /\ last'.msg = "ok"
                    /\ orders'[last'.target] =
                         WebhookUpdate(orders[last'.target], last'.req.body,
                                       last'.company, now) ]_vars

\* the event service threw for a payload reporting o1 delivered: the answer
\* was 200 and the order is stored as delivered
C20_Witness ==
  /\ last.op = "webhook" /\ last.code = 200
  /\ last.effects = <<"save", "emit threw">>
  /\ last.target = "o1"
  /\ orders["o1"].deliveryStatus = <<"delivered">>
  /\ orders["o1"].deliveryStatusUpdated # 0

\* C21: every statusMapping entry of every stored company has a
\* companyStatus and an internalStatus that are non-empty after trim,
\* whichever of createCompany, updateCompany, updateFieldMappings wrote it.
C21_StoredMappingsAreSanitized ==
  \A c \in Range(CompanyIds) :
    companies[c].exists
    => \A i \in 1..Len(companies[c].statusMapping) :
         /\ Trim(companies[c].statusMapping[i].companyStatus) # <<>>
         /\ Trim(companies[c].statusMapping[i].internalStatus) # <<>>

(***************************************************************************)
(* proxyExternalList (POST /external/list): the outbound GET / JSON-RPC    *)
(* request to a provider.  Header names and values are token sequences;   *)
(* the tokens that matter are "$" (the dollar sign), "$__" (the text      *)
(* '$__'), "CR", "LF", ":" (a character outside the token regex), "," and *)
(* Blank.  A header object is a sequence of entries in Object.entries     *)
(* order; the headers of a request are a function from name to value.     *)
(***************************************************************************)
NullValue == [kind |-> "null", text |-> <<>>, items |-> <<>>]
TextValue(t) == [kind |-> "text", text |-> t, items |-> <<>>]
ArrayValue(a) == [kind |-> "array", text |-> <<>>, items |-> a]

\* Array.prototype.join(',')
RECURSIVE Join(_)
Join(items) ==
  IF items = <<>> THEN <<>>
  ELSE IF Len(items) = 1 THEN items[1]
  ELSE items[1] \o <<",">> \o Join(Tail(items))

\* line 350: /^[!#$%&'*+.^_`|~0-9A-Za-z-]+$/
IsHeaderToken(key) ==
  key # <<>> /\ \A i \in 1..Len(key) : key[i] \notin {Blank, ":", "CR", "LF", ","}

\* lines 346-356 for one entry: the entry is dropped
HeaderSkipped(key, rawValue) ==
  LET value == IF rawValue.kind = "array" THEN Join(rawValue.items)
               ELSE rawValue.text
  IN \/ key = <<>>
     \/ key[1] = "$"
     \/ ~IsHeaderToken(key)
     \/ rawValue.kind = "null"
     \/ value = <<>>
     \/ \E i \in 1..Len(value) : value[i] \in {"CR", "LF", "$__"}

\* lines 344-359
RECURSIVE sanitizeHeaders(_)
sanitizeHeaders(input) ==
  IF input = <<>> THEN <<>>
  ELSE LET rest == sanitizeHeaders(SubSeq(input, 1, Len(input) - 1))
           e == input[Len(input)]
           key == Trim(e.key)
           value == IF e.value.kind = "array" THEN Join(e.value.items)
                    ELSE e.value.text
       IN IF HeaderSkipped(key, e.value) THEN rest
          ELSE (key :> value) @@ rest

\* lines 371-383: the headers derived from the stored configuration
\* (company.credentials is empty and DELIVERY_HUB_API_KEY_HEADER is unset)
DerivedHeaders(company) ==
  LET cfg == companies[company].apiConfiguration
      token == IF cfg.bearer # <<>> THEN cfg.bearer ELSE cfg.apiKey
      headerName == IF cfg.apiKeyHeader # <<>> THEN cfg.apiKeyHeader
                    ELSE <<"x-api-key">>
      stored == sanitizeHeaders(cfg.headers)
  IN IF cfg.authMethod = "bearer" /\ token # <<>>
     THEN (<<"Authorization">> :> (<<"Bearer", Blank>> \o token)) @@ stored
     ELSE IF cfg.authMethod = "apiKey" /\ cfg.apiKey # <<>>
     THEN (headerName :> cfg.apiKey) @@ stored
     ELSE stored

\* lines 325-333: the url is missing or is not an http(s) url
ProxyUrlRefusal(req) ==
  LET targetUrl == Trim(req.url)
  IN IF targetUrl = <<>> THEN "url is required"
     ELSE IF Lower(targetUrl[1]) \notin {"http", "https"}
     THEN "url must start with http or https"
     ELSE ""

\* lines 361-367
ProxyFindCompany(req) ==
  IF req.companyId # "" THEN CompanyFindById(req.companyId)
  ELSE IF req.companyCode # "" THEN CompanyFindByCode(req.companyCode)
  ELSE ""

\* lines 451-471: the headers handed to axios; a JSON-RPC call starts from
\* Content-Type
ProxyRequestHeaders(req, company) ==
  LET requestHeaders == sanitizeHeaders(req.headers) @@ DerivedHeaders(company)
  IN IF req.jsonrpc
     THEN requestHeaders @@ (<<"Content-Type">> :> <<"application/json">>)
     ELSE requestHeaders

\* lines 316-485; status is the provider's answer, 0 when the call throws
\* without a response
proxyExternalList(req, status) ==
  /\ nops < MaxOps
  /\ LET company == ProxyFindCompany(req)
     IN last' =
          IF ProxyUrlRefusal(req) # ""
          THEN Reply("proxyExternalList", req, 400, ProxyUrlRefusal(req))
          ELSE IF company = ""
          THEN Reply("proxyExternalList", req, 404, "Delivery company not found")
          ELSE [Reply("proxyExternalList", req,
                      IF status = 0 THEN 502 ELSE status,
                      IF status = 200 THEN "" ELSE "proxy_failed")
                  EXCEPT !.company = company,
                         !.sent = ProxyRequestHeaders(req, company)]
  /\ nops' = nops + 1
  /\ UNCHANGED <<orders, companies, envToken, now, sends, sessions,
               paypalOrders, schedVars, trackerVars>>

HeaderEntry(key, value) == [key |-> key, value |-> value]

\* req.body.headers
ProxyHeaderObjects ==
  { <<>>,
    <<HeaderEntry(<<Blank, "X-Trace", Blank>>, TextValue(<<"t1">>)),
      HeaderEntry(<<"$", "where">>, TextValue(<<"1">>))>>,
    <<HeaderEntry(<<"X-Trace">>, TextValue(<<"a", "CR", "LF", "b">>)),
      HeaderEntry(<<"X-Tag">>, ArrayValue(<< <<"a">>, <<"b">> >>))>>,
    <<HeaderEntry(<<"X-Trace">>, TextValue(<<"x", "$__", "y">>)),
      HeaderEntry(<<"bad", ":", "name">>, TextValue(<<"v">>)),
      HeaderEntry(<<"X-Null">>, NullValue),
      HeaderEntry(<<"Authorization">>, TextValue(<<"Bearer", Blank, "mine">>))>> }

ProxyRequests ==
  [url : {<<>>, <<"ftp", "host">>, <<Blank, "HTTPS", "host">>},
   companyId : {"", "c1", "c2", MissingCompanyId},
   companyCode : {"", "K3"},
   headers : ProxyHeaderObjects,
   jsonrpc : BOOLEAN]

\* what the provider answers: 200, an error status, no response
ProxyStatuses == {200, 503, 0}

\* the stored configurations: c1 authenticates with a bearer token, c2 with
\* an API key under its own header name, c3 with nothing; each has stored
\* headers.  The documents are what createCompany stores from a request body.
InitProxy ==
  /\ companies =
       [c \in Range(CompanyIds) |->
          [InitCompany(c, TRUE, c = "c1") EXCEPT
             !.apiConfiguration =
                [url |-> "https",
                 authMethod |-> CASE c = "c1" -> "bearer" [] c = "c2" -> "apiKey"
                                  [] OTHER -> "none",
                 bearer |-> IF c = "c1" THEN <<"tok", "$__", "x">> ELSE <<>>,
                 apiKey |-> IF c = "c2" THEN <<"key1">> ELSE <<>>,
                 apiKeyHeader |-> IF c = "c2" THEN <<"$", "where">> ELSE <<>>,
                 headers |->
                   <<HeaderEntry(<<"X-Stored">>, TextValue(<<"s", "LF", "t">>)),
                     HeaderEntry(<<"$", "set">>, TextValue(<<"1">>)),
                     HeaderEntry(<<"X-Hub">>, TextValue(<<"hub">>))>>]]]
  /\ orders = InitOrders
  /\ sends = [p \in Procs |-> IdleSend]
  /\ sessions = [s \in Range(SessionIds) |-> NoSession]
  /\ envToken = TokenA
  /\ now = 1
  /\ nops = 0
  /\ last = NoResponse
  /\ InitCollaborators

NextProxy ==
  \E req \in ProxyRequests, status \in ProxyStatuses : proxyExternalList(req, status)

SpecProxy == InitProxy /\ [][NextProxy]_vars

\* a header that the claim excludes
UnsafeHeader(name, value) ==
  \/ name[1] = "$"
  \/ \E i \in 1..Len(value) : value[i] \in {"CR", "LF", "$__"}

\* C22: no header of the outbound request of proxyExternalList has a name
\* that starts with '$' or a value that contains CR, LF or '$__', whether it
\* comes from the request body, the stored headers or the stored auth
\* settings (bearer token, API key, API-key header name)
C22_OutboundHeadersAreSanitized ==
  last.op = "proxyExternalList" =>
    \A name \in DOMAIN last.sent : ~UnsafeHeader(name, last.sent[name])

\* the part that holds: the headers that come from the request body and from
\* the stored headers object are sanitized
C22_NonAuthHeadersAreSanitized ==
  last.op = "proxyExternalList" /\ last.company # "" =>
    \A name \in DOMAIN last.sent :
      UnsafeHeader(name, last.sent[name]) =>
        LET cfg == companies[last.company].apiConfiguration
        IN \/ cfg.authMethod = "bearer" /\ name = <<"Authorization">>
           \/ cfg.authMethod = "apiKey" /\ name = cfg.apiKeyHeader

\* C23: on every exit of sendOrder that has started the transaction
\* (validator failure, provider error, save error, success) the transaction
\* is committed or aborted when the response is sent, and the session is
\* ended exactly once
C23_TransactionSettledBeforeResponse ==
  last.op = "sendOrder" /\ last.txn # "none" =>
    /\ last.txn \in {"committed", "aborted"}
    /\ last.sessionEnds = 1

\* the exits on which it is: the provider call was made
C23_SettledOnceProviderWasCalled ==
  last.op = "sendOrder" /\ last.calls # <<>> =>
    /\ last.txn \in {"committed", "aborted"}
    /\ last.sessionEnds = 1

\* lines 753-757: the summary of a batchSendOrders response
BatchSummary(total, results) ==
  [total |-> total,
   succeeded |-> Cardinality({i \in 1..Len(results) : results[i].success}),
   failed |-> Cardinality({i \in 1..Len(results) : ~results[i].success})]

\* C24: in every batchSendOrders response summary.total = summary.succeeded +
\* summary.failed = the number of entries in results, for both values of
\* stopOnError
C24_SummaryAddsUp ==
  last.op = "batchSendOrders" /\ last.code = 200 =>
    LET summary == BatchSummary(last.total, last.results)
    IN /\ summary.total = summary.succeeded + summary.failed
       /\ summary.total = Len(last.results)

\* what holds: succeeded + failed is the number of entries, and total is that
\* number too unless the loop stopped at a failure before the last id
C24_SummaryAddsUpUnlessStopped ==
  last.op = "batchSendOrders" /\ last.code = 200 =>
    LET summary == BatchSummary(last.total, last.results)
    IN /\ summary.succeeded + summary.failed = Len(last.results)
       /\ summary.total = Len(last.req.orderIds)
       /\ (~last.req.stopOnError \/ summary.failed = 0
             => summary.total = Len(last.results))

(***************************************************************************)
(* The checkout-draft reminder scheduler,                                  *)
(* src/services/checkoutDraftReminderScheduler.js.  One unit of the clock  *)
(* is ten minutes.  A phone is a token sequence whose digit runs are the   *)
(* tokens of DigitRuns.  An interval the runtime holds fires any number of *)
(* times; a tick that has started stops at its awaits (the Twilio call,    *)
(* draft.save()), so a second tick can start meanwhile.                    *)
(***************************************************************************)
\* line 5: REMINDER_DELAY_MS, in clock units
REMINDER_DELAY == 1

\* line 103: .limit(10)
DueLimit == 10

\* start / stop calls per behaviour
MaxSchedulerCalls == 4

\* the messages counted per draft (the count stays at this number)
MaxMessages == 2

DigitRuns == {"059", "123"}

\* phone.replace(/\D/g, '')
Digits(phone) ==
  LET IsDigitRun(t) == t \in DigitRuns
  IN SelectSeq(phone, IsDigitRun)

\* lines 28-30
resolvePhone(draft) ==
  IF draft.contactMobile # <<>> THEN draft.contactMobile ELSE draft.payloadPhone

\* lines 47-52
normalizeE164(phone) ==
  IF Digits(Trim(phone)) = <<>> THEN <<>> ELSE <<"+">> \o Digits(Trim(phone))

\* lines 54-58
normalizeWhatsAppAddress(phone) ==
  IF normalizeE164(phone) = <<>> THEN <<>>
  ELSE <<"whatsapp:">> \o normalizeE164(phone)

\* lines 89-100: the filter of the query
IsDue(d) ==
  /\ drafts[d].lastSeenAt <= now - REMINDER_DELAY
  /\ drafts[d].reminderCount = 0
  /\ (drafts[d].contactMobile # <<>> \/ drafts[d].payloadPhone # <<>>)

\* line 102: .sort({ lastSeenAt: 1 })
\* (the drafts of the model have different lastSeenAt)
SortByLastSeen(ids) ==
  LET Rank(d) ==
        Cardinality({e \in ids : drafts[e].lastSeenAt <= drafts[d].lastSeenAt})
  IN [i \in 1..Cardinality(ids) |-> CHOOSE d \in ids : Rank(d) = i]

\* lines 89-103: the documents the query loads
FindDue ==
  LET sorted == SortByLastSeen({d \in DOMAIN drafts : IsDue(d)})
      n == IF Len(sorted) < DueLimit THEN Len(sorted) ELSE DueLimit
  IN [i \in 1..n |-> [id |-> sorted[i], doc |-> drafts[sorted[i]]]]

\* the invocations of tick that can be at an await together
TickSlots == {"t1", "t2"}

IdleTick == [pc |-> "idle", due |-> <<>>, i |-> 0]

\* line 122: the loop moves to the next draft, or the tick ends
NextDraft(t) ==
  IF t.i >= Len(t.due) THEN IdleTick ELSE [t EXCEPT !.i = @ + 1, !.pc = "send"]

\* a call of startCheckoutDraftReminderScheduler / stop...: last.calls is the
\* calls made so far
SchedulerCall(op, msg) ==
  [Reply(op, <<>>, 0, msg) EXCEPT !.calls = Append(last.calls, op)]

\* setInterval's handle: the first number no live interval has
NewInterval == CHOOSE h \in 1..(Cardinality(intervals) + 1) : h \notin intervals

\* lines 83-84 and 155 without the guard of line 84
StartUnguarded ==
  /\ timer' = NewInterval
  /\ intervals' = intervals \cup {NewInterval}
  /\ last' = SchedulerCall("startScheduler", "started")

\* lines 83-84, 155
StartTimer ==
  IF timer # 0
  THEN /\ UNCHANGED <<timer, intervals>>
       /\ last' = SchedulerCall("startScheduler", "running")
  ELSE /\ timer' = NewInterval
       /\ intervals' = intervals \cup {NewInterval}
       /\ last' = SchedulerCall("startScheduler", "started")

\* lines 83-156
startCheckoutDraftReminderScheduler ==
  /\ nops < MaxSchedulerCalls
  /\ StartTimer
  /\ nops' = nops + 1
  /\ UNCHANGED <<orders, companies, envToken, now, sends, sessions,
                 paypalOrders, drafts, ticks, messages, trackerVars>>

\* lines 158-163
stopCheckoutDraftReminderScheduler ==
  /\ nops < MaxSchedulerCalls
  /\ IF timer # 0
     THEN /\ intervals' = intervals \ {timer}
          /\ timer' = 0
          /\ last' = SchedulerCall("stopScheduler", "stopped")
     ELSE /\ UNCHANGED <<timer, intervals>>
          /\ last' = SchedulerCall("stopScheduler", "idle")
  /\ nops' = nops + 1
  /\ UNCHANGED <<orders, companies, envToken, now, sends, sessions,
                 paypalOrders, drafts, ticks, messages, trackerVars>>

\* lines 86-121: the interval h fires; configured is line 117's test of the
\* settings
TickBegins(slot, h, configured) ==
  /\ h \in intervals
  /\ ticks[slot].pc = "idle"
  /\ ticks' =
       IF FindDue = <<>> \/ ~configured THEN ticks
       ELSE [ticks EXCEPT ![slot] = [pc |-> "send", due |-> FindDue, i |-> 1]]
  /\ UNCHANGED <<orders, companies, envToken, now, nops, last, sends, sessions,
                 paypalOrders, timer, intervals, drafts, messages, trackerVars>>

\* lines 124-135 and 146-148: the draft is skipped when its phone has no
\* digits; else the Twilio call settles: accepted, or it throws
TickSendSettles(slot, accepted) ==
  /\ ticks[slot].pc = "send"
  /\ LET t == ticks[slot]
         draft == t.due[t.i]
         to == normalizeWhatsAppAddress(resolvePhone(draft.doc))
     IN IF to = <<>>
        THEN /\ ticks' = [ticks EXCEPT ![slot] = NextDraft(t)]
             /\ messages' = messages
        ELSE IF accepted
        THEN /\ ticks' = [ticks EXCEPT ![slot].pc = "save"]
             /\ messages' =
                  [messages EXCEPT
                     ![draft.id] = IF @ < MaxMessages THEN @ + 1 ELSE @]
        ELSE /\ ticks' = [ticks EXCEPT ![slot] = NextDraft(t)]
             /\ messages' = messages
  /\ UNCHANGED <<orders, companies, envToken, now, nops, last, sends, sessions,
                 paypalOrders, timer, intervals, drafts, trackerVars>>

\* lines 137-148: draft.save() settles; it writes the paths the tick set
TickSaveSettles(slot, saveOk) ==
  /\ ticks[slot].pc = "save"
  /\ LET t == ticks[slot]
         draft == t.due[t.i]
     IN /\ drafts' =
             IF saveOk
             THEN [drafts EXCEPT
                     ![draft.id].lastReminderAt = now,
                     ![draft.id].lastReminderChannel = "whatsapp-auto",
                     ![draft.id].reminderCount = draft.doc.reminderCount + 1]
             ELSE drafts
        /\ ticks' = [ticks EXCEPT ![slot] = NextDraft(t)]
  /\ UNCHANGED <<orders, companies, envToken, now, nops, last, sends, sessions,
                 paypalOrders, timer, intervals, messages, trackerVars>>

Draft(lastSeenAt, contactMobile, payloadPhone) ==
  [lastSeenAt |-> lastSeenAt, contactMobile |-> contactMobile,
   payloadPhone |-> payloadPhone, reminderCount |-> 0, lastReminderAt |-> 0,
   lastReminderChannel |-> ""]

\* d1 has a mobile with digits, d2 a mobile without digits, d3 was seen at
\* time 1 and has only payload.phone, d4 has no phone
FewDrafts ==
  [d \in {"d1", "d2", "d3", "d4"} |->
     CASE d = "d1" -> Draft(-2, <<"059", "-", "123">>, <<>>)
       [] d = "d2" -> Draft(-1, <<"n/a">>, <<>>)
       [] d = "d3" -> Draft(1, <<>>, <<Blank, "059">>)
       [] OTHER -> Draft(-3, <<>>, <<>>)]

\* DueLimit drafts whose phone has no digits, in the order they were seen
BlockedIds ==
  <<"b01", "b02", "b03", "b04", "b05", "b06", "b07", "b08", "b09", "b10">>

\* the drafts of BlockedIds, and after them g1 whose mobile has digits
BlockedDrafts ==
  [d \in Range(BlockedIds) \cup {"g1"} |->
     IF d = "g1" THEN Draft(-1, <<"059">>, <<>>)
     ELSE Draft((CHOOSE i \in 1..Len(BlockedIds) : BlockedIds[i] = d) - 13,
                <<"n/a">>, <<>>)]

InitReminderWith(ds, h) ==
  /\ orders = InitOrders
  /\ companies = [c \in Range(CompanyIds) |-> InitCompany(c, TRUE, c = "c1")]
  /\ sends = [p \in Procs |-> IdleSend]
  /\ sessions = [s \in Range(SessionIds) |-> NoSession]
  /\ envToken = TokenA
  /\ now = 1
  /\ nops = 0
  /\ last = NoResponse
  /\ paypalOrders = [p \in Range(PayPalIds) |-> NoPayPalOrder]
  /\ timer = h
  /\ intervals = IF h = 0 THEN {} ELSE {h}
  /\ drafts = ds
  /\ ticks = [slot \in TickSlots |-> IdleTick]
  /\ messages = [d \in DOMAIN ds |-> 0]
  /\ productViewQueue = <<>>
  /\ productFlushTimer = FALSE
  /\ bulkWrites = <<>>
  /\ products = [p \in ProductIds |-> 0]
  /\ pageViews = 0

\* the scheduler is not started
InitReminder == InitReminderWith(FewDrafts, 0)

NextReminder ==
  \/ Tick
  \/ startCheckoutDraftReminderScheduler
  \/ stopCheckoutDraftReminderScheduler
  \/ \E slot \in TickSlots, h \in intervals, configured \in BOOLEAN :
       TickBegins(slot, h, configured)
  \/ \E slot \in TickSlots, accepted \in BOOLEAN : TickSendSettles(slot, accepted)
  \/ \E slot \in TickSlots, saveOk \in BOOLEAN : TickSaveSettles(slot, saveOk)

SpecReminder == InitReminder /\ [][NextReminder]_vars

\* C25: the scheduler sends at most one automatic WhatsApp reminder per
\* draft, over any sequence of ticks, a tick that starts while the previous
\* one is at an await and a tick after a failed draft.save() included
C25_AtMostOneReminderPerDraft ==
  \A d \in DOMAIN messages : messages[d] <= 1

\* what the code keeps: reminderCount never exceeds 1
C25_ReminderCountAtMostOne ==
  \A d \in DOMAIN drafts : drafts[d].reminderCount <= 1

\* C27: there is at most one reminder polling timer at any time, over any
\* sequence of start and stop calls: a start while the scheduler runs
\* creates no second timer, a stop leaves no timer, and a start after a stop
\* creates exactly one
C27_AtMostOnePollingTimer ==
  [][ /\ Cardinality(intervals') <= 1
      /\ Handles("startScheduler") =>
           /\ Cardinality(intervals') = 1
           /\ intervals # {} => intervals' = intervals
      /\ Handles("stopScheduler") => intervals' = {} ]_vars

\* started, started again while running, stopped, started again: one timer
C27_Witness ==
  /\ last.calls =
       <<"startScheduler", "startScheduler", "stopScheduler", "startScheduler">>
  /\ last.msg = "started"
  /\ Cardinality(intervals) = 1
  /\ timer \in intervals

(***************************************************************************)
(* The scheduler while it runs: the interval fires again and again, the    *)
(* settings have WhatsApp configured and Twilio accepts every message.     *)
(* Every await settles (weak fairness of the steps of each tick) and the   *)
(* interval keeps firing (weak fairness of the start of a tick).           *)
(***************************************************************************)
InitReminderLive ==
  \E ds \in {FewDrafts, BlockedDrafts} : InitReminderWith(ds, 1)

TickBeginsConfigured(slot) ==
  \E h \in intervals : TickBegins(slot, h, TRUE)

TickSaveSettlesEither(slot) ==
  \E saveOk \in BOOLEAN : TickSaveSettles(slot, saveOk)

NextReminderLive ==
  \/ Tick
  \/ \E slot \in TickSlots : TickBeginsConfigured(slot)
  \/ \E slot \in TickSlots : TickSendSettles(slot, TRUE)
  \/ \E slot \in TickSlots : TickSaveSettlesEither(slot)

SpecReminderLive ==
  /\ InitReminderLive
  /\ [][NextReminderLive]_vars
  /\ \A slot \in TickSlots :
       /\ WF_vars(TickBeginsConfigured(slot))
       /\ WF_vars(TickSendSettles(slot, TRUE))
       /\ WF_vars(TickSaveSettlesEither(slot))

\* the drafts whose phone normalizes to a non-empty address
ReminderDraftIds ==
  {d \in DOMAIN FewDrafts :
     normalizeWhatsAppAddress(resolvePhone(FewDrafts[d])) # <<>>}
  \cup {d \in DOMAIN BlockedDrafts :
          normalizeWhatsAppAddress(resolvePhone(BlockedDrafts[d])) # <<>>}

\* the draft is in the collection, is due, and its phone normalizes
DueWithPhone(d) ==
  /\ d \in DOMAIN drafts
  /\ IsDue(d)
  /\ normalizeWhatsAppAddress(resolvePhone(drafts[d])) # <<>>

\* Twilio accepted a reminder for the draft
Reminded(d) == d \in DOMAIN messages /\ messages[d] >= 1

C26_OldestDueDraftsAreReminded ==
  \A d \in ReminderDraftIds :
    (DueWithPhone(d) /\ \E i \in 1..Len(FindDue) : FindDue[i].id = d)
      ~> Reminded(d)

\* C28: a Meshulam session's status is 'approved' only after the gateway's
\* approveTransaction call for that session has succeeded; a callback whose
\* approve payload is incomplete or whose approve call fails leaves the
\* session not approved
C28_ApprovedOnlyAfterApproveSucceeded ==
  /\ \A s \in Range(SessionIds) :
       sessions[s].status = "approved" => sessions[s].approve = "approved"
  /\ last.op = "callback" /\ last.code = 200 /\ last.prov.code # "approved"
       => sessions[last.target].status # "approved"

\* what holds: only the callback handler sets a session to approved
C28_ApprovedOnlyByCallback ==
  [][ \A s \in Range(SessionIds) :
        sessions'[s].status = "approved" /\ sessions[s].status # "approved"
          => Handles("callback") /\ last'.target = s ]_vars

(***************************************************************************)
(* The PayPal controller, src/controllers/paypalController.js lines 5-143. *)
(* The gateway keeps the orders it created with their reference_id; it     *)
(* throws for an id it does not know and for an order it has captured.     *)
(***************************************************************************)
\* PayPal calls per behaviour
MaxPayPalCalls == 4

\* a PayPal id the gateway does not know
MissingPayPalId == "P9"

\* the id of the next order the gateway creates
NextPayPalId ==
  FirstOf(PayPalIds, {p \in Range(PayPalIds) : ~paypalOrders[p].exists})

\* lines 5-73: gatewayOk is whether client.execute resolves, saveOk whether
\* order.save() does
createPayPalOrder(req, gatewayOk, saveOk) ==
  /\ nops < MaxPayPalCalls
  /\ NextPayPalId # ""
  /\ LET order == OrderFindById(req.orderId)
         id == NextPayPalId
     IN IF req.orderId = ""
        THEN /\ UNCHANGED <<orders, paypalOrders>>
             /\ last' = Reply("createPayPalOrder", req, 400, "orderId is required")
        ELSE IF order = ""
        THEN /\ UNCHANGED <<orders, paypalOrders>>
             /\ last' = Reply("createPayPalOrder", req, 404, "Order not found")
        ELSE IF orders[order].paymentStatus = "completed"
        THEN /\ UNCHANGED <<orders, paypalOrders>>
             /\ last' = Reply("createPayPalOrder", req, 400, "Order is already paid")
        ELSE IF ~gatewayOk
        THEN /\ UNCHANGED <<orders, paypalOrders>>
             /\ last' = Reply("createPayPalOrder", req, 500,
                              "Failed to create PayPal order")
        ELSE /\ paypalOrders' =
                  [paypalOrders EXCEPT
                     ![id] = [exists |-> TRUE, reference_id |-> order,
                              captured |-> FALSE]]
             /\ orders' =
                  IF saveOk
                  THEN [orders EXCEPT ![order].paymentMethod = "paypal",
                                      ![order].paymentReference = id]
                  ELSE orders
             /\ last' =
                  [Reply("createPayPalOrder", req,
                         IF saveOk THEN 200 ELSE 500,
                         IF saveOk THEN id ELSE "Failed to create PayPal order")
                     EXCEPT !.target = order]
  /\ nops' = nops + 1
  /\ UNCHANGED <<companies, envToken, now, sends, sessions, schedVars,
                 trackerVars>>

\* the statuses a capture returns; "" is client.execute throwing
CaptureStatuses == {"COMPLETED", "DECLINED", ""}

\* lines 76-143: status is the capture's result, saveOk whether order.save()
\* resolves
capturePayPalOrder(req, status, saveOk) ==
  /\ nops < MaxPayPalCalls
  /\ LET id == req.paypalOrderId
         known == id \in Range(PayPalIds) /\ paypalOrders[id].exists
         referenceId == IF known THEN paypalOrders[id].reference_id ELSE ""
         order == OrderFindById(referenceId)
     IN IF id = ""
        THEN /\ UNCHANGED <<orders, paypalOrders>>
             /\ last' = Reply("capturePayPalOrder", req, 400,
                              "paypalOrderId is required")
        ELSE IF ~known \/ paypalOrders[id].captured \/ status = ""
        THEN /\ UNCHANGED <<orders, paypalOrders>>
             /\ last' = Reply("capturePayPalOrder", req, 500,
                              "Failed to capture PayPal order")
        ELSE /\ paypalOrders' =
                  [paypalOrders EXCEPT
                     ![id].captured = (status = "COMPLETED")]
             /\ IF order = ""
                THEN /\ orders' = orders
                     /\ last' = Reply("capturePayPalOrder", req, 404,
                                      "Local order not found")
                ELSE IF ~saveOk
                THEN /\ orders' = orders
                     /\ last' = Reply("capturePayPalOrder", req, 500,
                                      "Failed to capture PayPal order")
                ELSE IF status = "COMPLETED"
                THEN /\ orders' =
                          [orders EXCEPT
                             ![order].paymentStatus = "completed",
                             ![order].status =
                                IF @ = "pending" THEN "processing" ELSE @,
                             ![order].paymentDetails = status]
                     /\ last' = [Reply("capturePayPalOrder", req, 200,
                                       "Payment captured")
                                   EXCEPT !.target = order]
                ELSE /\ orders' =
                          [orders EXCEPT
                             ![order].paymentStatus = "failed",
                             ![order].paymentDetails = status]
                     /\ last' = [Reply("capturePayPalOrder", req, 400,
                                       "Payment not completed")
                                   EXCEPT !.target = order]
  /\ nops' = nops + 1
  /\ UNCHANGED <<companies, envToken, now, sends, sessions, schedVars,
                 trackerVars>>

PayPalCreateRequests == [orderId : {"", "o1", MissingOrderId}]

PayPalCaptureRequests ==
  [paypalOrderId : {""} \cup Range(PayPalIds) \cup {MissingPayPalId}]

InitPayPal == InitWith(TokenA, {"c1", "c2"}, {"c1"})

NextPayPal ==
  \/ \E req \in PayPalCreateRequests, gatewayOk \in BOOLEAN, saveOk \in BOOLEAN :
       createPayPalOrder(req, gatewayOk, saveOk)
  \/ \E req \in PayPalCaptureRequests, status \in CaptureStatuses,
        saveOk \in BOOLEAN :
       capturePayPalOrder(req, status, saveOk)

SpecPayPal == InitPayPal /\ [][NextPayPal]_vars

\* C29: once an order's paymentStatus is 'completed', no later
\* createPayPalOrder or capturePayPalOrder call changes its paymentStatus
\* (never to 'failed') or its paymentReference
C29_CompletedPaymentIsFinal ==
  [][ Handles("createPayPalOrder") \/ Handles("capturePayPalOrder")
      => \A o \in Range(OrderIds) :
           orders[o].paymentStatus = "completed"
             => /\ orders'[o].paymentStatus = "completed"
                /\ orders'[o].paymentReference = orders[o].paymentReference ]_vars

\* what holds: createPayPalOrder changes nothing of a completed order
C29_CreateLeavesCompletedOrder ==
  [][ Handles("createPayPalOrder")
      => \A o \in Range(OrderIds) :
           orders[o].paymentStatus = "completed" => orders'[o] = orders[o] ]_vars

(***************************************************************************)
(* The visitor tracker, src/services/visitorTracker.js lines 110-168.  An  *)
(* id is a token sequence; a path is a token sequence whose tokens are     *)
(* "/product/", "/", "?", "#" and names.                                   *)
(***************************************************************************)
\* trackEvent calls per behaviour
MaxTrackCalls == 3

\* lines 72-77
normalizeId(id) == Trim(id)

\* line 130: /^\/product\/([^/?#]+)/ on the path; <<>> when it does not match
ProductOfPath(path) ==
  IF Len(path) >= 2 /\ path[1] = "/product/" /\ path[2] \notin {"/", "?", "#"}
  THEN <<path[2]>> ELSE <<>>

\* line 133: productViewQueue.get(productId) || { count: 0 }
QueuedCount(productId) ==
  IF productId \in DOMAIN productViewQueue THEN productViewQueue[productId] ELSE 0

RECURSIVE SumOf(_, _)
SumOf(f, keys) ==
  IF keys = {} THEN 0
  ELSE LET k == CHOOSE x \in keys : TRUE
       IN f[k] + SumOf(f, keys \ {k})

\* lines 110-142
trackEvent(ev) ==
  /\ nops < MaxTrackCalls
  /\ LET visitorId == normalizeId(ev.id)
         match == ProductOfPath(ev.path)
         counted == visitorId # <<>> /\ ev.type = "page_view" /\ match # <<>>
     IN /\ productViewQueue' =
             IF counted
             THEN (match[1] :> (QueuedCount(match[1]) + 1)) @@ productViewQueue
             ELSE productViewQueue
        /\ productFlushTimer' = (productFlushTimer \/ counted)
        /\ pageViews' = IF counted THEN pageViews + 1 ELSE pageViews
        /\ last' = Reply("trackEvent", ev, IF visitorId = <<>> THEN 400 ELSE 200,
                         IF counted THEN match[1] ELSE "")
  /\ nops' = nops + 1
  /\ UNCHANGED <<orders, companies, envToken, now, sends, sessions,
                 paypalOrders, schedVars, bulkWrites, products>>

\* lines 146-165: the flush timer fires; the queue is emptied into the
\* operations of one bulkWrite, which is then awaited
FlushTimerFires ==
  /\ productFlushTimer
  /\ productFlushTimer' = FALSE
  /\ LET ops == [p \in {q \in DOMAIN productViewQueue : productViewQueue[q] > 0}
                   |-> productViewQueue[p]]
     IN /\ productViewQueue' = <<>>
        /\ bulkWrites' = IF DOMAIN ops = {} THEN bulkWrites
                         ELSE Append(bulkWrites, ops)
  /\ UNCHANGED <<orders, companies, envToken, now, nops, last, sends, sessions,
                 paypalOrders, schedVars, products, pageViews>>

\* lines 164-166: Product.bulkWrite settles; a rejection is swallowed
BulkWriteSettles(i, ok) ==
  /\ i \in 1..Len(bulkWrites)
  /\ products' =
       IF ok
       THEN [p \in ProductIds |->
               IF p \in DOMAIN bulkWrites[i]
               THEN products[p] + bulkWrites[i][p] ELSE products[p]]
       ELSE products
  /\ bulkWrites' = [j \in 1..(Len(bulkWrites) - 1) |->
                      IF j < i THEN bulkWrites[j] ELSE bulkWrites[j + 1]]
  /\ UNCHANGED <<orders, companies, envToken, now, nops, last, sends, sessions,
                 paypalOrders, schedVars, productViewQueue, productFlushTimer,
                 pageViews>>

TrackedEvents ==
  [id : {<<>>, <<Blank, "v1">>},
   type : {"page_view", "click"},
   path : {<<"/product/", "p1">>, <<"/product/", "p2", "?", "ref">>,
           <<"/product/">>, <<"/cart">>}]

InitTracker == InitWith(TokenA, {"c1", "c2"}, {"c1"})

NextTracker ==
  \/ \E ev \in TrackedEvents : trackEvent(ev)
  \/ FlushTimerFires
  \/ \E i \in 1..Len(bulkWrites), ok \in BOOLEAN : BulkWriteSettles(i, ok)

SpecTracker == InitTracker /\ [][NextTracker]_vars

\* the views that are queued or in a bulk write that is awaited
ViewsOnTheWay ==
  SumOf(productViewQueue, DOMAIN productViewQueue)
  + SumOf([i \in 1..Len(bulkWrites) |-> SumOf(bulkWrites[i], DOMAIN bulkWrites[i])],
          1..Len(bulkWrites))

\* C30: every product page view recorded by trackEvent is applied to
\* visitorViewCount exactly once: over any sequence of trackEvent calls and
\* flush-timer firings, a flush whose bulkWrite fails included, the counts
\* that successful bulk writes applied, with those still queued or awaited,
\* sum to the number of recorded /product/<id> page views
C30_EveryViewIsAppliedOnce ==
  SumOf(products, ProductIds) + ViewsOnTheWay = pageViews

\* what holds: no view is applied more than once
C30_NoViewIsAppliedTwice ==
  SumOf(products, ProductIds) + ViewsOnTheWay <= pageViews

====
